---- MODULE Spec2Model ----
(***************************************************************************)
(* State-machine model of the catalogue crawlers of Kronixion/matval: the  *)
(* ICA spider (ica_spider.py), the Hemkop spider (hemkop_spider.py) and    *)
(* the Mathem spider (mathem_spider.py).                                   *)
(*                                                                         *)
(* For each spider the state is the spider's fields and the bag of         *)
(* requests handed to the engine and not answered yet, and there is one    *)
(* action per callback.  A callback runs to completion (the reactor is     *)
(* single threaded and _refresh_session blocks it), so each callback is    *)
(* one action.  The server and the challenge solver are the environment:   *)
(* a response and a solver outcome are chosen with \E.  A specification    *)
(* runs one spider and leaves the others as constructed; SpecDecode runs   *)
(* two side by side, and SpecRefresh takes _refresh_session step by step.  *)
(***************************************************************************)
EXTENDS Integers, Sequences, FiniteSets, Bags, TLC

(***************************************************************************)
(* Program constants (ica_spider.py).                                      *)
(***************************************************************************)
BATCH_SIZE == 50
WAF_TOKEN_TTL == 240
MAX_WAF_RETRIES == 3

\* coop_spider.py
page_size == 48

\* pipeline.py: process_item commits when the count is a multiple of this
COMMIT_EVERY == 100

(***************************************************************************)
(* Bounds of the model.                                                    *)
(***************************************************************************)
\* root_categories has the ids 1..NumSeeds
NumSeeds == 1
\* category ids and product ids the server of Spec knows
NumCats == 2
NumProds == 2
\* the largest category id and the largest product id of any server
MaxCatId == 3
MaxProdId == 3
\* productGroups per listing payload, product ids per group, subcategories per
\* payload, inlined products per payload
MaxGroups == 1
MaxGroupLen == 1
MaxSubs == 1
MaxInline == 1
\* 202/403 answers and solver runs lacking a token that the environment of
\* Spec gives in one run
MaxBlocks == 1
MaxFaults == 0
\* the same for the environment of SpecRetry
RetryBlocks == 4
RetryFaults == 1
\* the same for the environment of SpecLive, which answers 202/403 without limit
LiveFaults == 1
\* the longest productGroups list of a listing payload of SpecBatch
MaxIds == 127
\* Hemkop: _TOP_LEVEL_CATEGORIES has the slugs 1..NumTopLevel; the server knows
\* the slugs 1..NumSlugs and the product codes 1..NumCodes, and a category has
\* up to MaxPages listing pages
NumTopLevel == 1
NumSlugs == 2
NumCodes == 1
MaxPages == 3
\* subCategories entries and results entries per Hemkop listing payload
MaxSubCategories == 1
MaxResults == 1
\* Hemkop listing responses whose pagination is neither absent nor the one of
\* the requested page that the environment gives in one run
MaxOdd == 1
\* the listing pages per category of the server of SpecSparse
SparsePages == 2
\* Mathem: the category slugs are 1..NumMathemCategories, and the landing page
\* of SpecMathem has the categories 1..NumLanding; the server knows the
\* subcategory URIs 1..NumUris and the products 1..NumMathemProducts; a
\* subcategory source has up to MaxCursor pages
NumMathemCategories == 2
NumLanding == 1
NumUris == 1
NumMathemProducts == 1
MaxCursor == 3
\* page entries per Mathem payload, items per page entry or product grid,
\* section and chip URIs per payload
MaxEntries == 2
MaxItems == 1
MaxSections == 1
\* Mathem subcategory responses other than the page asked for that the
\* environment gives in one run
MaxMathemOdd == 1
\* the history counters of the 202 and of the 403 answers to one batch
\* saturate here
MaxCount == 4
\* Coop: the mapping file has the category ids 1..NumCoopCategories, the server
\* lists the product ids 1..NumCoopProducts, up to MaxCoopItems per response,
\* and reports counts of up to MaxCoopPages pages
NumCoopCategories == 2
NumCoopProducts == 2
MaxCoopItems == 2
MaxCoopPages == 2
\* the pipeline: category names, product names and site product ids of the
\* items, the calls of DBOps and the items handed to process_item in one
\* run, and the statements that fail
NumCategoryNames == 2
NumProductNames == 1
NumSiteIds == 2
MaxDbCalls == 4
MaxHanded == 3
MaxDbFaults == 1
\* the items that the pipeline of SpecCadence has upserted before the run of
\* the model starts
CadenceStart == 98
\* the 202/403 answers of the scenario's server
ScenarioBlocks == 2
\* the seconds between two readings of the clock, the last reading, and the
\* 202/403 answers and solver faults of the server of SpecClock
TickStep == 120
MaxNow == 480
ClockBlocks == 1
ClockFaults == 1
\* the _refresh_session calls and the requests in flight of SpecRefresh
MaxCalls == 3
MaxBuilt == 2
\* the 202/403 answers of the ICA server of SpecDecode
DecodeBlocks == 1

\* the category ids and product ids of the model, and those the server of
\* Spec knows
Cats == 1..MaxCatId
Prods == 1..MaxProdId

KnownCats == 1..NumCats

KnownProds == 1..NumProds

None == 0

Min(a, b) == IF a < b THEN a ELSE b

\* the elements of a set of integers in ascending order
RECURSIVE SetToSeq(_)
SetToSeq(S) ==
    IF S = {} THEN <<>>
    ELSE LET m == CHOOSE x \in S : \A y \in S : x <= y
         IN  <<m>> \o SetToSeq(S \ {m})

RECURSIVE SeqToBag(_)
SeqToBag(s) ==
    IF s = <<>> THEN EmptyBag
    ELSE SetToBag({Head(s)}) (+) SeqToBag(Tail(s))

RECURSIVE Flatten(_)
Flatten(ss) == IF ss = <<>> THEN <<>> ELSE Head(ss) \o Flatten(Tail(ss))

Range(s) == {s[i] : i \in DOMAIN s}

VARIABLES
    root_categories,      \* IcaSpider.root_categories (the seed ids, in order)
    visited_categories,   \* self._visited_categories
    emitted_product_ids,  \* self._emitted_product_ids
    waf_token,            \* self._waf_token (None = 0)
    csrf_token,           \* self._csrf_token (None = 0)
    session_cookies,      \* self._session_cookies ({} = 0)
    token_obtained_at,    \* self._token_obtained_at
    now,                  \* time.monotonic()
    started,              \* start_requests has run
    pending,              \* bag of requests yielded and not yet answered
    items,                \* history: how often an item was yielded per product id
    last,                 \* history: what the last callback did
    first_requests,       \* history: first-attempt listing requests yielded per category id
    env,                  \* environment: the 202/403 answers and solver faults left
    solver                \* the progress of _refresh_session and of its worker thread

VARIABLES
    queued_slugs,         \* HemkopSpider._queued_slugs
    seen_product_codes,   \* HemkopSpider._seen_product_codes
    hemkop_started,       \* HemkopSpider.start_requests has run
    hemkop_pending,       \* bag of Hemkop requests yielded and not yet answered
    hemkop_items,         \* history: how often an item was yielded per product code
    hemkop_fetched,       \* history: listing requests yielded per slug and page
    hemkop_details,       \* history: per product code, the detail requests yielded
                          \* and whether one of them failed
    hemkop_honest,        \* history: per slug, every response so far was JSON and
                          \* reported the requested page and the server's page count
    hemkop_last,          \* history: what the last Hemkop callback did
    hemkop_server,        \* environment: the number of listing pages per slug
    hemkop_env            \* environment: the odd paginations left

hemkopVars == <<queued_slugs, seen_product_codes, hemkop_started, hemkop_pending,
                hemkop_items, hemkop_fetched, hemkop_details, hemkop_honest, hemkop_last,
                hemkop_server, hemkop_env>>

VARIABLES
    queued_subcategories, \* MathemSpider._queued_subcategories
    mathem_started,       \* MathemSpider.parse has run
    mathem_pending,       \* bag of Mathem requests yielded and not yet answered
    mathem_items,         \* history: how often an item was yielded per product
    mathem_fetched,       \* history: parse_category requests yielded per category,
                          \* URI and cursor
    mathem_clean,         \* history: per category and URI, every response so far
                          \* was the page of the source that the request asked
                          \* for, and no button of another listing led to the URI
    mathem_last,          \* history: what the last Mathem callback did
    mathem_server,        \* environment: the number of pages per subcategory source
    mathem_env            \* environment: the other responses left, and the
                          \* number of categories on the landing page

mathemVars == <<queued_subcategories, mathem_started, mathem_pending, mathem_items,
                mathem_fetched, mathem_clean, mathem_last, mathem_server, mathem_env>>

VARIABLES
    coop_config,          \* environment: what the Coop run finds at startup
    coop_phase,           \* "new", "constructed", "started" or "failed"
    coop_error,           \* the exception that ended the Coop run, or "none"
    subscription_key,     \* CoopSpider.subscription_key ("None" = None)
    coop_engine_key,      \* crawler.engine._coop_subscription_key ("None" = unset)
    category_mapping,     \* CoopSpider.category_mapping, the category ids in file order
    coop_pending,         \* bag of Coop requests yielded and not yet answered
    coop_items,           \* history: how often an item was yielded per product id
    coop_fetched,         \* history: listing requests yielded per category id and skip
    coop_reported         \* history: per category id, whether a response came,
                          \* whether every response so far was JSON and reported
                          \* one count, and that count

coopVars == <<coop_config, coop_phase, coop_error, subscription_key, coop_engine_key,
              category_mapping, coop_pending, coop_items, coop_fetched,
              coop_reported>>

VARIABLES
    store_name_setting,   \* the STORE_NAME setting ("None" = not set)
    pipeline_phase,       \* "none", "created", "open", "closed" or "failed"
    store_id,             \* PostgresPipeline.store_id (0 before construction)
    pipe_count,           \* PostgresPipeline._count
    category_cache,       \* DBOps._category_cache
    product_cache,        \* DBOps._product_cache
    tables,               \* the database as the connection's transaction sees it
    committed,            \* the database as committed
    db_created,           \* history: rows inserted per table and cache key
    db_returned,          \* history: per call and key, the ids that the calls of
                          \* DBOps returned and the product ids that process_item
                          \* upserted
    db_last,              \* history: what the last pipeline or DBOps call did
    db_uncommitted,       \* history: the items that process_item upserted since
                          \* the last call of connection.commit()
    db_env                \* environment: the schema's NULL handling, the failing
                          \* statements left and the calls left

pipelineVars == <<store_name_setting, pipeline_phase, store_id, pipe_count,
                  category_cache, product_cache, tables, committed, db_created,
                  db_returned, db_last, db_uncommitted, db_env>>

icaVars == <<root_categories, visited_categories, emitted_product_ids, waf_token,
             csrf_token, session_cookies, token_obtained_at, now, started, pending,
             items, last, first_requests, env, solver>>

(***************************************************************************)
(* The challenge solver (the Playwright run of _refresh_session) is the    *)
(* environment.  Its outcome is one of: "error" (playwright missing, an    *)
(* exception, the 60 s timeout), or a returned triple with or without a    *)
(* WAF token and with or without a CSRF token.  A returned triple is named *)
(* by a generation id that no request in flight and no field carries.      *)
(***************************************************************************)
SolverOutcomes == {"error", "both", "waf_only", "csrf_only", "neither"}

\* the outcomes of the first and of the later solver runs within one callback
OutcomePairs == SolverOutcomes \X SolverOutcomes

FreshGen(used) == CHOOSE g \in 1..(Cardinality(used) + 1) : g \notin used

\* the session fields as one value; n counts the _refresh_session calls of the
\* running callback, used is the set of generation ids in use
Session == [waf |-> waf_token, csrf |-> csrf_token, cookies |-> session_cookies,
            at |-> token_obtained_at, n |-> 0,
            used |-> {waf_token, csrf_token, session_cookies}
                     \cup {r.waf : r \in BagToSet(pending)}
                     \cup {r.csrf : r \in BagToSet(pending)}]

\* _refresh_session: on an error nothing is stored; otherwise the four fields
\* are overwritten with what the solver returned and the time of the call
RefreshSession(s, outs, t) ==
    LET o == IF s.n = 0 THEN outs[1] ELSE outs[2]
        g == FreshGen(s.used)
    IN  IF o = "error"
        THEN [s EXCEPT !.n = @ + 1]
        ELSE [waf     |-> IF o \in {"both", "waf_only"} THEN g ELSE None,
              csrf    |-> IF o \in {"both", "csrf_only"} THEN g ELSE None,
              cookies |-> g,
              at      |-> t,
              n       |-> s.n + 1,
              used    |-> s.used \cup {g}]

\* MaybeRefreshSession with the test elapsed >= _WAF_TOKEN_TTL
MaybeRefreshSessionAtTTL(s, outs, t) ==
    IF s.waf = None THEN RefreshSession(s, outs, t)
    ELSE IF t - s.at >= WAF_TOKEN_TTL THEN RefreshSession(s, outs, t)
    ELSE s

\* _maybe_refresh_session
MaybeRefreshSession(s, outs, t) ==
    IF s.waf = None THEN RefreshSession(s, outs, t)
    ELSE IF t - s.at > WAF_TOKEN_TTL THEN RefreshSession(s, outs, t)
    ELSE s

(***************************************************************************)
(* Requests.  One record shape for both kinds: a category request carries  *)
(* meta category_id, category_chain and waf_retries (absent = 0); a batch  *)
(* request carries meta product_ids and category_chain.  waf is the        *)
(* aws-waf-token cookie and csrf the x-csrf-token header copied in when    *)
(* the request is built.  soft and denied are history only: the number of  *)
(* 202 and of 403 answers the requests for this batch got so far, each     *)
(* saturating at MaxCount; waf_at is history only: the time at which the   *)
(* WAF token of the request was obtained.  sent is FALSE while the engine  *)
(* holds the request in its queue.                                         *)
(***************************************************************************)
CategoryTemplate(category_id, chain, retries, df) ==
    [kind |-> "category", category_id |-> category_id, category_chain |-> chain,
     waf_retries |-> retries, product_ids |-> <<>>, dont_filter |-> df,
     waf |-> None, csrf |-> None, soft |-> 0, denied |-> 0, waf_at |-> 0, sent |-> TRUE]

BatchTemplate(product_ids, chain, soft, denied) ==
    [kind |-> "batch", category_id |-> None, category_chain |-> chain,
     waf_retries |-> 0, product_ids |-> product_ids, dont_filter |-> TRUE,
     waf |-> None, csrf |-> None, soft |-> soft, denied |-> denied, waf_at |-> 0,
     sent |-> TRUE]

\* _auth_cookies: the WAF token as it is when the request is built
AuthCookies(s) == s.waf

\* cookies=self._auth_cookies() and, for a batch, the x-csrf-token header
CopySession(tmpl, s) ==
    [tmpl EXCEPT !.waf = AuthCookies(s),
                 !.csrf = IF tmpl.kind = "batch" THEN s.csrf ELSE None,
                 !.waf_at = IF s.waf = None THEN 0 ELSE s.at]

\* _build_category_request / _build_product_batch_request: refresh the session
\* if needed, then copy the cookies (and, for a batch, the CSRF header)
BuildRequest(tmpl, s, outs, t) ==
    LET s1 == MaybeRefreshSession(s, outs, t)
    IN  [req |-> CopySession(tmpl, s1),
         s   |-> s1]

\* the requests a callback builds one after the other
RECURSIVE BuildAll(_, _, _, _)
BuildAll(tmpls, s, outs, t) ==
    IF tmpls = <<>> THEN [reqs |-> <<>>, s |-> s]
    ELSE LET b    == BuildRequest(Head(tmpls), s, outs, t)
             rest == BuildAll(Tail(tmpls), b.s, outs, t)
         IN  [reqs |-> <<b.req>> \o rest.reqs, s |-> rest.s]

(***************************************************************************)
(* Server responses.  A listing payload has result.categories (the ids of  *)
(* the subcategories), entities.product (per product id: absent, complete, *)
(* or lacking productId/retailerProductId/name) and result.productGroups   *)
(* (a list of lists of product ids).  A batch payload has products.  A     *)
(* server draws them from the categories and products it knows.            *)
(***************************************************************************)
GroupChoices(prods) ==
    {SetToSeq(S) : S \in {T \in SUBSET prods : Cardinality(T) \in 1..MaxGroupLen}}

GroupLists(prods, groups) == UNION {[1..n -> GroupChoices(prods)] : n \in 0..groups}

EntityMaps(prods) ==
    {e \in [Prods -> {"absent", "complete", "partial"}] :
       /\ \A p \in Prods \ prods : e[p] = "absent"
       /\ Cardinality({p \in Prods : e[p] # "absent"}) <= MaxInline}

SubcategoryLists(cats) == {S \in SUBSET cats : Cardinality(S) <= MaxSubs}

ListingPayloadsOf(cats, prods, groups) ==
    [categories : SubcategoryLists(cats), entities : EntityMaps(prods),
     groups : GroupLists(prods, groups)]

BatchPayloadsOf(prods) == [products : EntityMaps(prods)]

\* the server of Spec, and the server of SpecRetry (one category, one product)
ListingPayloads == ListingPayloadsOf(KnownCats, KnownProds, MaxGroups)

BatchPayloads == BatchPayloadsOf(KnownProds)

RetryListingPayloads == ListingPayloadsOf({1}, {1}, 1)

RetryBatchPayloads == BatchPayloadsOf({1})

\* _build_item: None unless productId, retailerProductId and name are all there;
\* the item is identified by its product_id
BuildItem(entities, pid) ==
    IF pid \in DOMAIN entities /\ entities[pid] = "complete" THEN pid ELSE None

\* Chunks without the last, shorter chunk
ChunksWithoutTail(ids) ==
    [k \in 1..(Len(ids) \div BATCH_SIZE) |->
        SubSeq(ids, (k - 1) * BATCH_SIZE + 1, k * BATCH_SIZE)]

\* for i in range(0, len(remaining_ids), _BATCH_SIZE): remaining_ids[i : i + _BATCH_SIZE]
Chunks(ids) ==
    [k \in 1..((Len(ids) + BATCH_SIZE - 1) \div BATCH_SIZE) |->
        SubSeq(ids, (k - 1) * BATCH_SIZE + 1, Min(k * BATCH_SIZE, Len(ids)))]

\* the pids of productGroups that are neither inlined nor emitted, in order,
\* repeated as often as they are listed
RemainingIds(groups, entity_ids, emitted) ==
    SelectSeq(Flatten(groups), LAMBDA pid : pid \notin entity_ids /\ pid \notin emitted)

\* the subcategories of a payload that are not visited yet, in list order
NewSubcategories(categories, visited) == SetToSeq(categories \ visited)

\* EmitItems without the membership test
EmitItemsUnchecked(ids, emitted) ==
    [emitted |-> emitted \cup ids, yielded |-> SetToSeq(ids), suppressed |-> {}]

\* the entity loop of parse_category and the product loop of parse_product_batch
\* over the product ids an item was built for: an item is yielded only if its
\* id is not in the emitted set, and the id is added to the set
EmitItems(ids, emitted) ==
    [emitted |-> emitted \cup ids, yielded |-> SetToSeq(ids \ emitted),
     suppressed |-> ids \cap emitted]

\* what a callback leaves behind: the visited set, the emitted set with the
\* product ids of the items it yielded and of those it built and did not
\* yield (e), the session, the requests, and its remaining_ids list;
\* referenced is history: the pids of productGroups that are neither inlined
\* nor emitted, whether or not the callback came to list them; inlined is
\* history: the pids of entities.product
Outcome(visited, e, s, reqs, remaining) ==
    [visited |-> visited, emitted |-> e.emitted, s |-> s, reqs |-> reqs,
     yielded |-> e.yielded, suppressed |-> e.suppressed, remaining |-> remaining,
     referenced |-> remaining, inlined |-> {}]

\* a callback that returns at once (retry bound reached, body not parsed)
Skipped(visited, emitted, s) == Outcome(visited, EmitItems({}, emitted), s, <<>>, <<>>)

\* CategorySoftBlocked with the bound tested by > instead of >=
CategorySoftBlockedOffByOne(req, visited, emitted, s, outs, t) ==
    IF req.waf_retries > MAX_WAF_RETRIES
    THEN Skipped(visited, emitted, s)
    ELSE LET s1 == RefreshSession(s, outs, t)
             b  == BuildRequest(CategoryTemplate(req.category_id, req.category_chain,
                                                 req.waf_retries + 1, TRUE), s1, outs, t)
         IN  Outcome(visited, EmitItems({}, emitted), b.s, <<b.req>>, <<>>)

\* parse_category, status 202
CategorySoftBlocked(req, visited, emitted, s, outs, t) ==
    IF req.waf_retries >= MAX_WAF_RETRIES
    THEN Skipped(visited, emitted, s)
    ELSE LET s1 == RefreshSession(s, outs, t)
             b  == BuildRequest(CategoryTemplate(req.category_id, req.category_chain,
                                                 req.waf_retries + 1, TRUE), s1, outs, t)
         IN  Outcome(visited, EmitItems({}, emitted), b.s, <<b.req>>, <<>>)

\* DiscoverSubcategories with a chain that starts at the subcategory
DiscoverSubcategoriesFlat(req, categories, visited) ==
    LET subs == NewSubcategories(categories, visited)
    IN  [visited |-> visited \cup Range(subs),
         tmpls   |-> [i \in 1..Len(subs) |->
                        CategoryTemplate(subs[i], <<subs[i]>>, 0, FALSE)]]

\* the subcategory loop of parse_category
DiscoverSubcategories(req, categories, visited) ==
    LET subs == NewSubcategories(categories, visited)
    IN  [visited |-> visited \cup Range(subs),
         tmpls   |-> [i \in 1..Len(subs) |->
                        CategoryTemplate(subs[i], Append(req.category_chain, subs[i]), 0, FALSE)]]

\* parse_category, any other status, body parsed
CategoryParsed(req, payload, visited, emitted, s, outs, t) ==
    LET d          == DiscoverSubcategories(req, payload.categories, visited)
        b1         == BuildAll(d.tmpls, s, outs, t)
        entity_ids == {pid \in DOMAIN payload.entities : BuildItem(payload.entities, pid) # None}
        e          == EmitItems(entity_ids, emitted)
        remaining  == IF b1.s.csrf # None
                      THEN RemainingIds(payload.groups, entity_ids, e.emitted)
                      ELSE <<>>
        chunks     == Chunks(remaining)
        batchTmpls == [i \in 1..Len(chunks) |-> BatchTemplate(chunks[i], req.category_chain, 0, 0)]
        b2         == BuildAll(batchTmpls, b1.s, outs, t)
    IN  [Outcome(d.visited, e, b2.s, b1.reqs \o b2.reqs, remaining)
            EXCEPT !.referenced = RemainingIds(payload.groups, entity_ids, e.emitted),
                   !.inlined = {pid \in DOMAIN payload.entities :
                                  payload.entities[pid] # "absent"}]

\* parse_product_batch, status 202 or 403: the meta built by
\* _build_product_batch_request has no waf_retries, so the retry count read
\* from a batch response is 0 for every batch request
BatchBlocked(req, status, visited, emitted, s, outs, t) ==
    IF req.waf_retries >= MAX_WAF_RETRIES
    THEN Skipped(visited, emitted, s)
    ELSE LET s1     == RefreshSession(s, outs, t)
             soft   == IF status = 202 THEN Min(req.soft + 1, MaxCount) ELSE req.soft
             denied == IF status = 403 THEN Min(req.denied + 1, MaxCount) ELSE req.denied
             b      == BuildRequest(BatchTemplate(req.product_ids, req.category_chain,
                                                  soft, denied), s1, outs, t)
         IN  Outcome(visited, EmitItems({}, emitted), b.s, <<b.req>>, <<>>)

\* BatchParsed with every built item yielded
BatchParsedUnchecked(req, payload, visited, emitted, s) ==
    LET ids == {pid \in DOMAIN payload.products : BuildItem(payload.products, pid) # None}
        e   == EmitItemsUnchecked(ids, emitted)
    IN  Outcome(visited, e, s, <<>>, <<>>)

\* parse_product_batch, body parsed
BatchParsed(req, payload, visited, emitted, s) ==
    LET ids == {pid \in DOMAIN payload.products : BuildItem(payload.products, pid) # None}
        e   == EmitItems(ids, emitted)
    IN  Outcome(visited, e, s, <<>>, <<>>)

(***************************************************************************)
(* Actions of the ICA spider.  A callback runs to completion before the    *)
(* next one starts, so each is one action; the response it is called on    *)
(* and the outcomes of the solver runs it makes are chosen by the          *)
(* environment.                                                            *)
(***************************************************************************)
\* a second solver outcome is only consulted after a first one left no WAF token
OutcomeChoices(mayRefresh) ==
    IF mayRefresh
    THEN {o \in OutcomePairs : o[1] \in {"both", "waf_only"} => o[2] = o[1]}
    ELSE {<<"both", "both">>}

\* the solver runs of a callback that did not return both tokens
Faults(s, outs) ==
    IF s.n = 0 THEN 0
    ELSE (IF outs[1] # "both" THEN 1 ELSE 0) + (IF outs[2] # "both" THEN s.n - 1 ELSE 0)

\* _maybe_refresh_session would call the solver
NeedsRefresh == waf_token = None \/ now - token_obtained_at > WAF_TOKEN_TTL

\* the product_ids of the batch requests among reqs, in order
BatchesOf(reqs) ==
    LET batches == SelectSeq(reqs, LAMBDA r : r.kind = "batch")
    IN  [i \in 1..Len(batches) |-> batches[i].product_ids]

\* the callback, the status it was called on, the request's retry count, whether
\* the request carried an older WAF token than the one the spider held when the
\* callback started, the number of _refresh_session calls the callback made, its
\* remaining_ids list, the product_ids of the batch requests it yielded in the
\* order it yielded them, the product ids it built an item for and did not
\* yield, whether it got past the JSON decoding of the body (TRUE if it
\* did not come to decode it), the pids of productGroups that were neither
\* inlined nor emitted, and the pids of the entities of the payload
LastRecord(cb, req, status, out) ==
    [cb |-> cb, status |-> status, retries |-> req.waf_retries,
     stale |-> (req.waf # None /\ waf_token # None /\ req.waf # waf_token),
     refreshes |-> out.s.n, remaining |-> out.remaining,
     chunks |-> BatchesOf(out.reqs), suppressed |-> out.suppressed, decoded |-> TRUE,
     referenced |-> out.referenced, inlined |-> out.inlined]

NoRequest == CategoryTemplate(None, <<>>, 0, FALSE)

\* store what a callback left behind; taken is the bag of answered requests,
\* blocked is 1 when the answer was a 202 or a 403 to a batch.  An environment
\* that is endless answers 202/403 as often as it likes; an engine that has a
\* queue holds a yielded request until it sends it.
Commit(out, outs, taken, blocked, lastRec) ==
    /\ Faults(out.s, outs) <= env.faults
    /\ env.endless \/ blocked <= env.blocks
    /\ env' = [env EXCEPT !.faults = @ - Faults(out.s, outs),
                          !.blocks = IF env.endless THEN @ ELSE @ - blocked]
    /\ visited_categories' = out.visited
    /\ emitted_product_ids' = out.emitted
    /\ waf_token' = out.s.waf
    /\ csrf_token' = out.s.csrf
    /\ session_cookies' = out.s.cookies
    /\ token_obtained_at' = out.s.at
    /\ pending' = (pending (-) taken)
                  (+) SeqToBag([i \in DOMAIN out.reqs |->
                                  [out.reqs[i] EXCEPT !.sent = ~env.queue]])
    /\ items' = [pid \in Prods |->
                   items[pid] + Cardinality({i \in DOMAIN out.yielded : out.yielded[i] = pid})]
    /\ first_requests' =
         [c \in Cats |-> first_requests[c]
            + Cardinality({i \in DOMAIN out.reqs :
                /\ out.reqs[i].kind = "category"
                /\ out.reqs[i].category_id = c
                /\ out.reqs[i].waf_retries = 0})]
    /\ last' = lastRec

\* IcaSpider.__init__
Constructed ==
    /\ visited_categories = {}
    /\ emitted_product_ids = {}
    /\ waf_token = None
    /\ csrf_token = None
    /\ session_cookies = None
    /\ token_obtained_at = 0
    /\ now = 0
    /\ started = FALSE
    /\ pending = EmptyBag
    /\ items = [pid \in Prods |-> 0]
    /\ first_requests = [c \in Cats |-> 0]
    /\ last = [cb |-> "none", status |-> 0, retries |-> 0, stale |-> FALSE,
               refreshes |-> 0, remaining |-> <<>>, chunks |-> <<>>,
               suppressed |-> {}, decoded |-> TRUE, referenced |-> <<>>,
               inlined |-> {}]
    /\ solver = [pc |-> "idle", worker |-> 0, outcome |-> "none", gen |-> None,
                 calls |-> 0, failed |-> FALSE, ret |-> "None"]

\* start_requests: refresh the session, then one request per root category
StartRequests ==
    /\ ~started
    /\ \E outs \in OutcomeChoices(TRUE) :
         LET s1    == RefreshSession(Session, outs, now)
             tmpls == [i \in 1..Len(root_categories) |->
                         CategoryTemplate(root_categories[i], <<root_categories[i]>>, 0, FALSE)]
             b     == BuildAll(tmpls, s1, outs, now)
             out   == Outcome(visited_categories, EmitItems({}, emitted_product_ids),
                              b.s, b.reqs, <<>>)
         IN  Commit(out, outs, EmptyBag, 0, LastRecord("start_requests", NoRequest, 0, out))
    /\ started' = TRUE
    /\ UNCHANGED <<now, solver, root_categories, hemkopVars, mathemVars, coopVars, pipelineVars>>

\* parse_category on a 202 response
ParseCategorySoftBlock ==
    \E req \in BagToSet(pending) :
      /\ req.kind = "category"
      /\ req.sent
      /\ \E outs \in OutcomeChoices(req.waf_retries < MAX_WAF_RETRIES) :
           LET out == CategorySoftBlocked(req, visited_categories, emitted_product_ids,
                                          Session, outs, now)
           IN  Commit(out, outs, SetToBag({req}), 1, LastRecord("parse_category", req, 202, out))
      /\ UNCHANGED <<now, solver, started, root_categories, hemkopVars, mathemVars, coopVars, pipelineVars>>

\* ParseCategoryUndecodable with the refresh and the retry of the 202 branch
ParseCategoryUndecodableRetried ==
    \E req \in BagToSet(pending), status \in {200, 403} :
      /\ req.kind = "category"
      /\ req.sent
      /\ LET out == CategorySoftBlocked(req, visited_categories, emitted_product_ids,
                                        Session, <<"both", "both">>, now)
         IN  Commit(out, <<"both", "both">>, SetToBag({req}), 0,
                    [LastRecord("parse_category", req, status, out)
                        EXCEPT !.decoded = FALSE])
      /\ UNCHANGED <<now, solver, started, root_categories, hemkopVars, mathemVars, coopVars, pipelineVars>>

\* parse_category on a 200 or 403 response whose body is not JSON
ParseCategoryUndecodable ==
    \E req \in BagToSet(pending), status \in {200, 403} :
      /\ req.kind = "category"
      /\ req.sent
      /\ LET out == Skipped(visited_categories, emitted_product_ids, Session)
         IN  Commit(out, <<"both", "both">>, SetToBag({req}), 0,
                    [LastRecord("parse_category", req, status, out)
                        EXCEPT !.decoded = FALSE])
      /\ UNCHANGED <<now, solver, started, root_categories, hemkopVars, mathemVars, coopVars, pipelineVars>>

\* parse_category on the response to req with a JSON body
ListingAnswered(req, status, payload) ==
    /\ req.kind = "category"
    /\ req.sent
    /\ \E outs \in OutcomeChoices(NeedsRefresh) :
         LET out == CategoryParsed(req, payload, visited_categories, emitted_product_ids,
                                   Session, outs, now)
         IN  Commit(out, outs, SetToBag({req}), 0,
                    LastRecord("parse_category", req, status, out))
    /\ UNCHANGED <<now, solver, started, root_categories, hemkopVars, mathemVars, coopVars, pipelineVars>>

\* parse_category on a 200 or 403 response with a JSON body
ParseCategoryListing(payloads) ==
    \E req \in BagToSet(pending), status \in {200, 403}, payload \in payloads :
      ListingAnswered(req, status, payload)

\* parse_product_batch on a 202 or 403 response
ParseBatchBlocked ==
    \E req \in BagToSet(pending), status \in {202, 403} :
      /\ req.kind = "batch"
      /\ req.sent
      /\ \E outs \in OutcomeChoices(req.waf_retries < MAX_WAF_RETRIES) :
           LET out == BatchBlocked(req, status, visited_categories, emitted_product_ids,
                                   Session, outs, now)
           IN  Commit(out, outs, SetToBag({req}), 1,
                      LastRecord("parse_product_batch", req, status, out))
      /\ UNCHANGED <<now, solver, started, root_categories, hemkopVars, mathemVars, coopVars, pipelineVars>>

\* parse_product_batch on a 200 response whose body is not JSON
ParseBatchUndecodable ==
    \E req \in BagToSet(pending) :
      /\ req.kind = "batch"
      /\ req.sent
      /\ LET out == Skipped(visited_categories, emitted_product_ids, Session)
         IN  Commit(out, <<"both", "both">>, SetToBag({req}), 0,
                    [LastRecord("parse_product_batch", req, 200, out)
                        EXCEPT !.decoded = FALSE])
      /\ UNCHANGED <<now, solver, started, root_categories, hemkopVars, mathemVars, coopVars, pipelineVars>>

\* parse_product_batch on the 200 response to req with a JSON body
BatchAnswered(req, payload) ==
    /\ req.kind = "batch"
    /\ req.sent
    /\ LET out == BatchParsed(req, payload, visited_categories, emitted_product_ids, Session)
       IN  Commit(out, <<"both", "both">>, SetToBag({req}), 0,
                  LastRecord("parse_product_batch", req, 200, out))
    /\ UNCHANGED <<now, solver, started, root_categories, hemkopVars, mathemVars, coopVars, pipelineVars>>

\* parse_product_batch on a 200 response with a JSON body
ParseBatchProducts(payloads) ==
    \E req \in BagToSet(pending), payload \in payloads :
      BatchAnswered(req, payload)

\* the engine takes a request from its queue and sends it to the server as it
\* was built
EngineSend ==
    \E req \in BagToSet(pending) :
      /\ ~req.sent
      /\ pending' = (pending (-) SetToBag({req})) (+) SetToBag({[req EXCEPT !.sent = TRUE]})
      /\ last' = LastRecord("download", req, 0,
                            Skipped(visited_categories, emitted_product_ids, Session))
      /\ UNCHANGED <<now, solver, started, root_categories, visited_categories,
                     emitted_product_ids, waf_token, csrf_token, session_cookies,
                     token_obtained_at, items, first_requests, env, solver,
                     hemkopVars, mathemVars, coopVars, pipelineVars>>

\* time.monotonic() advances between two callbacks
Tick ==
    /\ now + TickStep <= MaxNow
    /\ now' = now + TickStep
    /\ UNCHANGED <<started, root_categories, visited_categories, emitted_product_ids,
                   waf_token, csrf_token, session_cookies, token_obtained_at, pending,
                   items, last, first_requests, env, solver, hemkopVars, mathemVars, coopVars, pipelineVars>>

(***************************************************************************)
(* _refresh_session step by step.  The reactor thread that runs the        *)
(* callbacks calls it; solver.pc is where that thread is: "idle" (not in   *)
(* _refresh_session), "result" (blocked in result(timeout=60)), "exit"     *)
(* (TimeoutError raised, blocked in the exit of the with block, which      *)
(* waits for the worker), "store_waf" .. "store_at" (before each of the    *)
(* four assignments).  solver.worker counts the threads that run _run.     *)
(***************************************************************************)
\* a refresh is in progress: the reactor thread is in _refresh_session or a
\* worker thread runs _run
InProgress == solver.pc # "idle" \/ solver.worker > 0

\* the call returns to its caller: every path of _refresh_session ends in a
\* bare return or falls off the end, so the caller is handed None
Returned(failed) ==
    [solver EXCEPT !.pc = "idle", !.failed = failed, !.ret = "None", !.outcome = "none"]

\* the import of playwright fails
RefreshUnavailable ==
    /\ solver.pc = "idle"
    /\ solver.calls < MaxCalls
    /\ solver' = [Returned(TRUE) EXCEPT !.calls = @ + 1]
    /\ UNCHANGED <<now, started, root_categories, visited_categories,
                   emitted_product_ids, waf_token, csrf_token, session_cookies,
                   token_obtained_at, pending, items, last, first_requests, env,
                   hemkopVars, mathemVars, coopVars, pipelineVars>>

\* pool.submit(_run), then result(timeout=60) blocks
RefreshSubmit ==
    /\ solver.pc = "idle"
    /\ solver.calls < MaxCalls
    /\ solver' = [solver EXCEPT !.pc = "result", !.worker = @ + 1, !.calls = @ + 1]
    /\ UNCHANGED <<now, started, root_categories, visited_categories,
                   emitted_product_ids, waf_token, csrf_token, session_cookies,
                   token_obtained_at, pending, items, last, first_requests, env,
                   hemkopVars, mathemVars, coopVars, pipelineVars>>

\* _run returns its triple within the 60 s
ResultReturned ==
    /\ solver.pc = "result"
    /\ \E o \in SolverOutcomes \ {"error"} :
         solver' = [solver EXCEPT !.pc = "store_waf", !.worker = @ - 1, !.outcome = o,
                                  !.gen = FreshGen(Session.used)]
    /\ UNCHANGED <<now, started, root_categories, visited_categories,
                   emitted_product_ids, waf_token, csrf_token, session_cookies,
                   token_obtained_at, pending, items, last, first_requests, env,
                   hemkopVars, mathemVars, coopVars, pipelineVars>>

\* ResultRaised with the time of the call stored
ResultRaisedStamping ==
    /\ solver.pc = "result"
    /\ solver' = [Returned(TRUE) EXCEPT !.worker = @ - 1]
    /\ token_obtained_at' = now
    /\ UNCHANGED <<now, started, root_categories, visited_categories,
                   emitted_product_ids, waf_token, csrf_token, session_cookies,
                   pending, items, last, first_requests, env,
                   hemkopVars, mathemVars, coopVars, pipelineVars>>

\* _run raises within the 60 s: except Exception logs it
ResultRaised ==
    /\ solver.pc = "result"
    /\ solver' = [Returned(TRUE) EXCEPT !.worker = @ - 1]
    /\ UNCHANGED <<now, started, root_categories, visited_categories,
                   emitted_product_ids, waf_token, csrf_token, session_cookies,
                   token_obtained_at, pending, items, last, first_requests, env,
                   hemkopVars, mathemVars, coopVars, pipelineVars>>

\* result(timeout=60) raises TimeoutError while _run is running
ResultTimeout ==
    /\ solver.pc = "result"
    /\ solver' = [solver EXCEPT !.pc = "exit"]
    /\ UNCHANGED <<now, started, root_categories, visited_categories,
                   emitted_product_ids, waf_token, csrf_token, session_cookies,
                   token_obtained_at, pending, items, last, first_requests, env,
                   hemkopVars, mathemVars, coopVars, pipelineVars>>

\* a _run that nobody waits for in result() ends; what it returns is dropped
WorkerEnds ==
    /\ solver.worker > (IF solver.pc = "result" THEN 1 ELSE 0)
    /\ solver' = [solver EXCEPT !.worker = @ - 1]
    /\ UNCHANGED <<now, started, root_categories, visited_categories,
                   emitted_product_ids, waf_token, csrf_token, session_cookies,
                   token_obtained_at, pending, items, last, first_requests, env,
                   hemkopVars, mathemVars, coopVars, pipelineVars>>

\* PoolExit without the wait for the worker
PoolExitNoWait ==
    /\ solver.pc = "exit"
    /\ solver' = Returned(TRUE)
    /\ UNCHANGED <<now, started, root_categories, visited_categories,
                   emitted_product_ids, waf_token, csrf_token, session_cookies,
                   token_obtained_at, pending, items, last, first_requests, env,
                   hemkopVars, mathemVars, coopVars, pipelineVars>>

\* the exit of the with block after the TimeoutError: shutdown(wait=True)
\* returns when the worker has ended; except Exception logs the error
PoolExit ==
    /\ solver.pc = "exit"
    /\ solver.worker = 0
    /\ solver' = Returned(TRUE)
    /\ UNCHANGED <<now, started, root_categories, visited_categories,
                   emitted_product_ids, waf_token, csrf_token, session_cookies,
                   token_obtained_at, pending, items, last, first_requests, env,
                   hemkopVars, mathemVars, coopVars, pipelineVars>>

\* self._waf_token = waf_token
StoreWaf ==
    /\ solver.pc = "store_waf"
    /\ waf_token' = IF solver.outcome \in {"both", "waf_only"} THEN solver.gen ELSE None
    /\ solver' = [solver EXCEPT !.pc = "store_csrf"]
    /\ UNCHANGED <<now, started, root_categories, visited_categories,
                   emitted_product_ids, csrf_token, session_cookies,
                   token_obtained_at, pending, items, last, first_requests, env,
                   hemkopVars, mathemVars, coopVars, pipelineVars>>

\* self._csrf_token = csrf
StoreCsrf ==
    /\ solver.pc = "store_csrf"
    /\ csrf_token' = IF solver.outcome \in {"both", "csrf_only"} THEN solver.gen ELSE None
    /\ solver' = [solver EXCEPT !.pc = "store_cookies"]
    /\ UNCHANGED <<now, started, root_categories, visited_categories,
                   emitted_product_ids, waf_token, session_cookies,
                   token_obtained_at, pending, items, last, first_requests, env,
                   hemkopVars, mathemVars, coopVars, pipelineVars>>

\* self._session_cookies = session_cookies
StoreCookies ==
    /\ solver.pc = "store_cookies"
    /\ session_cookies' = solver.gen
    /\ solver' = [solver EXCEPT !.pc = "store_at"]
    /\ UNCHANGED <<now, started, root_categories, visited_categories,
                   emitted_product_ids, waf_token, csrf_token,
                   token_obtained_at, pending, items, last, first_requests, env,
                   hemkopVars, mathemVars, coopVars, pipelineVars>>

\* self._token_obtained_at = time.monotonic(), then the log lines: a warning
\* if there is no WAF token
StoreAt ==
    /\ solver.pc = "store_at"
    /\ token_obtained_at' = now
    /\ solver' = Returned(waf_token = None)
    /\ UNCHANGED <<now, started, root_categories, visited_categories,
                   emitted_product_ids, waf_token, csrf_token, session_cookies,
                   pending, items, last, first_requests, env, hemkopVars, mathemVars, coopVars, pipelineVars>>

\* a callback, running on the reactor thread, builds a batch request from the
\* session as it is
BuildFromSession ==
    /\ solver.pc = "idle"
    /\ BagCardinality(pending) < MaxBuilt
    /\ pending' = pending (+) SetToBag({CopySession(BatchTemplate(<<1>>, <<1>>, 0, 0),
                                                    Session)})
    /\ UNCHANGED <<now, started, root_categories, visited_categories,
                   emitted_product_ids, waf_token, csrf_token, session_cookies,
                   token_obtained_at, items, last, first_requests, env, solver,
                   hemkopVars, mathemVars, coopVars, pipelineVars>>

\* the engine takes the answer to a request; its callback runs on the reactor
\* thread
TakeAnswer ==
    /\ solver.pc = "idle"
    /\ \E req \in BagToSet(pending) : pending' = pending (-) SetToBag({req})
    /\ UNCHANGED <<now, started, root_categories, visited_categories,
                   emitted_product_ids, waf_token, csrf_token, session_cookies,
                   token_obtained_at, items, last, first_requests, env, solver,
                   hemkopVars, mathemVars, coopVars, pipelineVars>>

RefreshNext ==
    \/ RefreshUnavailable
    \/ RefreshSubmit
    \/ ResultReturned
    \/ ResultRaised
    \/ ResultTimeout
    \/ WorkerEnds
    \/ PoolExit
    \/ StoreWaf
    \/ StoreCsrf
    \/ StoreCookies
    \/ StoreAt
    \/ BuildFromSession
    \/ TakeAnswer

IcaNext(listings, batches) ==
    \/ StartRequests
    \/ ParseCategorySoftBlock
    \/ ParseCategoryUndecodable
    \/ ParseCategoryListing(listings)
    \/ ParseBatchBlocked
    \/ ParseBatchUndecodable
    \/ ParseBatchProducts(batches)

(***************************************************************************)
(* The Hemkop spider (hemkop_spider.py).  Slugs, pages and product codes   *)
(* are numbers; a key that a payload lacks is Missing.                     *)
(***************************************************************************)
Slugs == 1..NumSlugs

Codes == 1..NumCodes

Missing == -1

TOP_LEVEL_CATEGORIES == [i \in 1..NumTopLevel |-> i]

ListingRequest(full_slug, page) ==
    [kind |-> "listing", full_slug |-> full_slug, page |-> page, code |-> None]

DetailRequest(full_slug, code) ==
    [kind |-> "detail", full_slug |-> full_slug, page |-> 0, code |-> code]

RequestCategoryUntested(queued, full_slug, page) ==
    [queued |-> IF page = 0 THEN queued \cup {full_slug} ELSE queued,
     reqs   |-> <<ListingRequest(full_slug, page)>>]

\* _request_category: page 0 of a slug is requested only if the slug is not
\* queued yet; a later page is requested without a test
RequestCategory(queued, full_slug, page) ==
    IF page = 0 /\ full_slug \in queued
    THEN [queued |-> queued, reqs |-> <<>>]
    ELSE [queued |-> IF page = 0 THEN queued \cup {full_slug} ELSE queued,
          reqs   |-> <<ListingRequest(full_slug, page)>>]

\* _request_category for a list of slugs, one after the other
RECURSIVE RequestCategories(_, _)
RequestCategories(queued, slugs) ==
    IF slugs = <<>> THEN [queued |-> queued, reqs |-> <<>>]
    ELSE LET first == RequestCategory(queued, Head(slugs), 0)
             rest  == RequestCategories(first.queued, Tail(slugs))
         IN  [queued |-> rest.queued, reqs |-> first.reqs \o rest.reqs]

\* the subcategory loop: the entries of subCategories that have a url
DiscoverSubCategories(queued, subCategories) ==
    RequestCategories(queued, SelectSeq(subCategories, LAMBDA url : url # Missing))

\* QueueProducts without the marking of the code
QueueProductsUnmarked(seen, full_slug, results) ==
    LET codes == SelectSeq(results, LAMBDA code : code # Missing /\ code \notin seen)
    IN  [seen |-> seen,
         reqs |-> [i \in DOMAIN codes |-> DetailRequest(full_slug, codes[i])]]

\* the product loop: a detail request for every code that is there and not seen
RECURSIVE QueueProducts(_, _, _)
QueueProducts(seen, full_slug, results) ==
    IF results = <<>> THEN [seen |-> seen, reqs |-> <<>>]
    ELSE LET code == Head(results)
             skip == code = Missing \/ code \in seen
             rest == QueueProducts(IF skip THEN seen ELSE seen \cup {code},
                                   full_slug, Tail(results))
         IN  [seen |-> rest.seen,
              reqs |-> (IF skip THEN <<>> ELSE <<DetailRequest(full_slug, code)>>)
                       \o rest.reqs]

\* pagination.get("currentPage", 0) and pagination.get("numberOfPages", 1)
CurrentPage(pagination) ==
    IF pagination.currentPage = Missing THEN 0 ELSE pagination.currentPage

NumberOfPages(pagination) ==
    IF pagination.numberOfPages = Missing THEN 1 ELSE pagination.numberOfPages

\* NextPage with the test current_page + 1 <= num_pages
NextPageInclusive(queued, full_slug, pagination) ==
    IF CurrentPage(pagination) + 1 <= NumberOfPages(pagination)
    THEN RequestCategory(queued, full_slug, CurrentPage(pagination) + 1)
    ELSE [queued |-> queued, reqs |-> <<>>]

\* the pagination step of parse_product_listing
NextPage(queued, full_slug, pagination) ==
    IF CurrentPage(pagination) + 1 < NumberOfPages(pagination)
    THEN RequestCategory(queued, full_slug, CurrentPage(pagination) + 1)
    ELSE [queued |-> queued, reqs |-> <<>>]

ListingParsedUnlessEmpty(req, payload, queued, seen) ==
    IF payload.results = <<>>
    THEN [queued |-> queued, seen |-> seen, reqs |-> <<>>, next |-> <<>>]
    ELSE LET subs  == DiscoverSubCategories(queued, payload.subCategories)
             prods == QueueProducts(seen, req.full_slug, payload.results)
             next  == NextPage(subs.queued, req.full_slug, payload.pagination)
         IN  [queued |-> next.queued, seen |-> prods.seen,
              reqs |-> subs.reqs \o prods.reqs \o next.reqs, next |-> next.reqs]

\* parse_product_listing on a JSON body
ListingParsed(req, payload, queued, seen) ==
    LET subs  == DiscoverSubCategories(queued, payload.subCategories)
        prods == QueueProducts(seen, req.full_slug, payload.results)
        next  == NextPage(subs.queued, req.full_slug, payload.pagination)
    IN  [queued |-> next.queued, seen |-> prods.seen,
         reqs |-> subs.reqs \o prods.reqs \o next.reqs, next |-> next.reqs]

\* the listing payloads of the server
SeqsUpTo(S, n) == UNION {[1..k -> S] : k \in 0..n}

PageValues == 0..MaxPages

HemkopListingPayloads ==
    [subCategories : SeqsUpTo(Slugs \cup {Missing}, MaxSubCategories),
     results       : SeqsUpTo(Codes \cup {Missing}, MaxResults),
     pagination    : [currentPage   : PageValues \cup {Missing},
                      numberOfPages : PageValues \cup {Missing, MaxPages + 1}]]

\* the pagination is absent from the payload
Bare(pagination) ==
    pagination.currentPage = Missing /\ pagination.numberOfPages = Missing

\* the pagination reports the requested page and the server's page count
Honest(req, pagination) ==
    /\ pagination.currentPage = req.page
    /\ pagination.numberOfPages = hemkop_server[req.full_slug]

\* what the history keeps of a payload that is not watched, and of one that is
Unwatched ==
    [seen |-> FALSE, subCategories |-> <<>>, results |-> <<>>,
     pagination |-> [currentPage |-> Missing, numberOfPages |-> Missing]]

Watched(payload) ==
    [seen |-> TRUE, subCategories |-> payload.subCategories,
     results |-> payload.results, pagination |-> payload.pagination]

\* store what a Hemkop callback left behind; honest is the set of slugs whose
\* record of honest answers the callback keeps, odd is 1 when the pagination
\* was neither absent nor honest
HemkopCommit(queued, seen, taken, reqs, yielded, honest, odd, lastRec) ==
    /\ odd <= hemkop_env.odd
    /\ hemkop_env' = [hemkop_env EXCEPT !.odd = @ - odd]
    /\ queued_slugs' = queued
    /\ seen_product_codes' = seen
    /\ hemkop_pending' = (hemkop_pending (-) taken) (+) SeqToBag(reqs)
    /\ hemkop_items' = [c \in Codes |-> hemkop_items[c] + (IF c \in yielded THEN 1 ELSE 0)]
    /\ hemkop_fetched' =
         [s \in Slugs |-> [p \in 0..(MaxPages + 1) |->
            hemkop_fetched[s][p]
            + Cardinality({i \in DOMAIN reqs : reqs[i] = ListingRequest(s, p)})]]
    /\ hemkop_details' =
         [c \in Codes |->
            [asked  |-> hemkop_details[c].asked
                        + Cardinality({i \in DOMAIN reqs :
                              reqs[i].kind = "detail" /\ reqs[i].code = c}),
             failed |-> \/ hemkop_details[c].failed
                        \/ /\ lastRec.cb = "_handle_detail_error"
                           /\ \E r \in BagToSet(taken) : r.code = c]]
    /\ hemkop_honest' = [s \in Slugs |-> hemkop_honest[s] /\ (s \in honest)]
    /\ hemkop_last' = lastRec
    /\ UNCHANGED hemkop_server

\* HemkopSpider.__init__
HemkopConstructed ==
    /\ queued_slugs = {}
    /\ seen_product_codes = {}
    /\ hemkop_started = FALSE
    /\ hemkop_pending = EmptyBag
    /\ hemkop_items = [c \in Codes |-> 0]
    /\ hemkop_fetched = [s \in Slugs |-> [p \in 0..(MaxPages + 1) |-> 0]]
    /\ hemkop_details = [c \in Codes |-> [asked |-> 0, failed |-> FALSE]]
    /\ hemkop_honest = [s \in Slugs |-> TRUE]
    /\ hemkop_last = [cb |-> "none", full_slug |-> None, page |-> 0, bare |-> FALSE,
                      next |-> <<>>, decoded |-> TRUE, rediscovered |-> {},
                      relisted |-> {}, watched |-> Unwatched]

\* the callback, the slug and page of the request it answered, whether the
\* payload had no pagination, the next-page requests it yielded, whether it
\* got past the JSON decoding of the body, the slugs among the payload's
\* subCategories that were queued before the callback, the codes among the
\* payload's results whose detail request had failed, and the payload when
\* the specification watches it
HemkopLast(cb, req, bare, next) ==
    [cb |-> cb, full_slug |-> req.full_slug, page |-> req.page, bare |-> bare,
     next |-> next, decoded |-> TRUE, rediscovered |-> {}, relisted |-> {},
     watched |-> Unwatched]

\* start_requests
HemkopStartRequests ==
    /\ ~hemkop_started
    /\ hemkop_started' = TRUE
    /\ LET r == RequestCategories(queued_slugs, TOP_LEVEL_CATEGORIES)
       IN  HemkopCommit(r.queued, seen_product_codes, EmptyBag, r.reqs, {}, Slugs, 0,
                        HemkopLast("start_requests", ListingRequest(None, 0), FALSE, <<>>))
    /\ UNCHANGED <<icaVars, mathemVars, coopVars, pipelineVars>>

\* parse_product_listing on a response with a JSON body; the history keeps
\* the payload if it is one of watched
ParseProductListingOf(watched) ==
    \E req \in BagToSet(hemkop_pending), payload \in HemkopListingPayloads :
      /\ req.kind = "listing"
      /\ LET out    == ListingParsed(req, payload, queued_slugs, seen_product_codes)
             honest == Honest(req, payload.pagination)
             odd    == IF honest \/ Bare(payload.pagination) THEN 0 ELSE 1
         IN  HemkopCommit(out.queued, out.seen, SetToBag({req}), out.reqs, {},
                          IF honest THEN Slugs ELSE Slugs \ {req.full_slug}, odd,
                          [HemkopLast("parse_product_listing", req,
                                      Bare(payload.pagination), out.next)
                              EXCEPT !.rediscovered =
                                         Range(payload.subCategories) \cap queued_slugs,
                                     !.relisted =
                                         {c \in Range(payload.results) \cap Codes :
                                             hemkop_details[c].failed},
                                     !.watched =
                                         IF payload \in watched THEN Watched(payload)
                                         ELSE Unwatched])
      /\ UNCHANGED <<hemkop_started, icaVars, mathemVars, coopVars, pipelineVars>>

ParseProductListing == ParseProductListingOf({})

\* parse_product_listing on a response whose body is not JSON
ParseProductListingUndecodable ==
    \E req \in BagToSet(hemkop_pending) :
      /\ req.kind = "listing"
      /\ HemkopCommit(queued_slugs, seen_product_codes, SetToBag({req}), <<>>, {},
                      Slugs \ {req.full_slug}, 0,
                      [HemkopLast("parse_product_listing", req, FALSE, <<>>)
                          EXCEPT !.decoded = FALSE])
      /\ UNCHANGED <<hemkop_started, icaVars, mathemVars, coopVars, pipelineVars>>

\* _handle_listing_error: the request failed
HandleListingError ==
    \E req \in BagToSet(hemkop_pending) :
      /\ req.kind = "listing"
      /\ HemkopCommit(queued_slugs, seen_product_codes, SetToBag({req}), <<>>, {},
                      Slugs \ {req.full_slug}, 0,
                      HemkopLast("_handle_listing_error", req, FALSE, <<>>))
      /\ UNCHANGED <<hemkop_started, icaVars, mathemVars, coopVars, pipelineVars>>

\* _build_item: the code of the item built from the code of the listing
\* product and the code of the detail, which is None when the body did not
\* parse; no item when neither has a code
HemkopBuildItem(listing_code, detail_code) ==
    LET code == IF detail_code # None THEN detail_code ELSE listing_code
    IN  IF code = None THEN {} ELSE {code}

\* parse_product_detail on a response with a JSON body
ParseProductDetail ==
    \E req \in BagToSet(hemkop_pending) :
      /\ req.kind = "detail"
      /\ HemkopCommit(queued_slugs, seen_product_codes, SetToBag({req}), <<>>,
                      HemkopBuildItem(req.code, req.code), Slugs, 0,
                      HemkopLast("parse_product_detail", req, FALSE, <<>>))
      /\ UNCHANGED <<hemkop_started, icaVars, mathemVars, coopVars, pipelineVars>>

\* parse_product_detail on a response whose body is not JSON: detail is None
\* and the item is built from the listing product
ParseProductDetailUndecodable ==
    \E req \in BagToSet(hemkop_pending) :
      /\ req.kind = "detail"
      /\ HemkopCommit(queued_slugs, seen_product_codes, SetToBag({req}), <<>>,
                      HemkopBuildItem(req.code, None), Slugs, 0,
                      [HemkopLast("parse_product_detail", req, FALSE, <<>>)
                          EXCEPT !.decoded = FALSE])
      /\ UNCHANGED <<hemkop_started, icaVars, mathemVars, coopVars, pipelineVars>>

HandleDetailErrorForgetting ==
    \E req \in BagToSet(hemkop_pending) :
      /\ req.kind = "detail"
      /\ HemkopCommit(queued_slugs, seen_product_codes \ {req.code}, SetToBag({req}),
                      <<>>, {}, Slugs, 0,
                      HemkopLast("_handle_detail_error", req, FALSE, <<>>))
      /\ UNCHANGED <<hemkop_started, icaVars, mathemVars, coopVars, pipelineVars>>

\* _handle_detail_error: the request failed
HandleDetailError ==
    \E req \in BagToSet(hemkop_pending) :
      /\ req.kind = "detail"
      /\ HemkopCommit(queued_slugs, seen_product_codes, SetToBag({req}), <<>>, {},
                      Slugs, 0, HemkopLast("_handle_detail_error", req, FALSE, <<>>))
      /\ UNCHANGED <<hemkop_started, icaVars, mathemVars, coopVars, pipelineVars>>

HemkopNext ==
    \/ HemkopStartRequests
    \/ ParseProductListing
    \/ ParseProductListingUndecodable
    \/ HandleListingError
    \/ ParseProductDetail
    \/ ParseProductDetailUndecodable
    \/ HandleDetailError

\* the listing payloads without products
SparsePayloads == {payload \in HemkopListingPayloads : payload.results = <<>>}

SparseNext ==
    \/ HemkopStartRequests
    \/ ParseProductListingOf(SparsePayloads)
    \/ ParseProductListingUndecodable
    \/ HandleListingError
    \/ ParseProductDetail
    \/ ParseProductDetailUndecodable
    \/ HandleDetailError

(***************************************************************************)
(* The Mathem spider (mathem_spider.py).  Category slugs, subcategory      *)
(* URIs, cursors and product detail slugs are numbers.  URI 0 is a URI     *)
(* that _normalize_subcategory rejects (none, a foreign prefix, the        *)
(* category itself); cursor 0 is a nextCursor that is absent, null or "",  *)
(* and a request without a cursor parameter; product 0 is an entry         *)
(* that _schedule_product skips.                                           *)
(***************************************************************************)
MathemCategories == 1..NumMathemCategories

Uris == 1..NumUris

Cursors == 1..MaxCursor

MathemProducts == 1..NumMathemProducts

\* the keys of _queued_subcategories
QueueKeys == MathemCategories \X Uris

QueueKey(req) == <<req.category_slug, req.uri>>

\* _normalize_subcategory: the slug of a URI, None for a rejected one
NormalizeSubcategory(uri) == IF uri \in Uris THEN uri ELSE None

\* a request with callback parse_category for the JSON of uri (None: of the
\* category itself)
MathemCategoryRequest(category_slug, uri, subcategory_slug, cursor) ==
    [kind |-> "category", category_slug |-> category_slug, uri |-> uri,
     subcategory_slug |-> subcategory_slug, cursor |-> cursor, product |-> None]

\* _schedule_product
ScheduleProduct(category_slug, subcategory_slug, product) ==
    IF product = None THEN <<>>
    ELSE <<[kind |-> "product", category_slug |-> category_slug, uri |-> None,
            subcategory_slug |-> subcategory_slug, cursor |-> None,
            product |-> product]>>

\* _schedule_cursor_request: the URL of the answered request with its cursor
\* parameter replaced
ScheduleCursorRequest(req, cursor) ==
    <<MathemCategoryRequest(req.category_slug, req.uri, req.subcategory_slug, cursor)>>

\* the queue loop of _discover_subcategories and of the sections fallback: a
\* request for every URI that has a slug and is not queued for the category
RECURSIVE QueueSubcategories(_, _, _)
QueueSubcategories(queued, category_slug, uris) ==
    IF uris = <<>> THEN [queued |-> queued, reqs |-> <<>>]
    ELSE LET uri  == Head(uris)
             skip == NormalizeSubcategory(uri) = None \/ <<category_slug, uri>> \in queued
             rest == QueueSubcategories(
                         IF skip THEN queued ELSE queued \cup {<<category_slug, uri>>},
                         category_slug, Tail(uris))
         IN  [queued |-> rest.queued,
              reqs   |-> (IF skip THEN <<>>
                          ELSE <<MathemCategoryRequest(category_slug, uri,
                                                       NormalizeSubcategory(uri), None)>>)
                         \o rest.reqs]

\* the products of one page entry or product grid
RECURSIVE ScheduleProducts(_, _, _)
ScheduleProducts(category_slug, subcategory_slug, products) ==
    IF products = <<>> THEN <<>>
    ELSE ScheduleProduct(category_slug, subcategory_slug, Head(products))
         \o ScheduleProducts(category_slug, subcategory_slug, Tail(products))

\* ExtractPages with the test hasMore or nextCursor
RECURSIVE ExtractPagesEither(_, _)
ExtractPagesEither(req, pages) ==
    IF pages = <<>> THEN <<>>
    ELSE LET page_entry == Head(pages)
         IN  ScheduleProducts(req.category_slug, req.subcategory_slug, page_entry.items)
             \o (IF page_entry.hasMore \/ page_entry.nextCursor # None
                 THEN ScheduleCursorRequest(req, page_entry.nextCursor)
                 ELSE <<>>)
             \o ExtractPagesEither(req, Tail(pages))

\* the pages loop of _extract_subcategory_products
RECURSIVE ExtractPages(_, _)
ExtractPages(req, pages) ==
    IF pages = <<>> THEN <<>>
    ELSE LET page_entry == Head(pages)
         IN  ScheduleProducts(req.category_slug, req.subcategory_slug, page_entry.items)
             \o (IF page_entry.hasMore /\ page_entry.nextCursor # None
                 THEN ScheduleCursorRequest(req, page_entry.nextCursor)
                 ELSE <<>>)
             \o ExtractPages(req, Tail(pages))

\* _parse_legacy_blocks on one product grid: its products, then the request for
\* the URI of its button
ParseLegacyBlocks(req, block) ==
    ScheduleProducts(req.category_slug, req.subcategory_slug, block.products)
    \o (IF block.button # None
        THEN <<MathemCategoryRequest(req.category_slug, block.button,
                                     req.subcategory_slug, None)>>
        ELSE <<>>)

\* the payloads of the server
ProductLists == SeqsUpTo(MathemProducts \cup {None}, MaxItems)

PageEntries ==
    [hasMore : BOOLEAN, nextCursor : Cursors \cup {None}, items : ProductLists]

PagesPayloads == UNION {[1..k -> PageEntries] : k \in 1..MaxEntries}

BlockPayloads == [products : ProductLists, button : Uris \cup {None}]

UriLists == SeqsUpTo(Uris \cup {None}, MaxSections)

\* the page of the source that a request asks for: the first page without a
\* cursor, the page after the k-th with cursor k
PageAsked(req) == req.cursor + 1

\* the payload is the one page of the source that the request asks for
HonestPages(req, pages) ==
    /\ Len(pages) = 1
    /\ pages[1].hasMore = (PageAsked(req) < mathem_server[req.uri])
    /\ pages[1].nextCursor = IF pages[1].hasMore THEN PageAsked(req) ELSE None

\* the cursors of the parse_category requests among reqs, in order
FollowUps(reqs) ==
    LET listing == SelectSeq(reqs, LAMBDA r : r.kind = "category")
    IN  [i \in 1..Len(listing) |-> listing[i].cursor]

\* the callback, the key of the request it answered, the pages of the payload
\* and the cursors of the parse_category requests it yielded
MathemLast(cb, req, pages, reqs) ==
    [cb |-> cb, key |-> QueueKey(req), pages |-> pages, followups |-> FollowUps(reqs)]

\* store what a Mathem callback left behind; spoiled are the keys whose record
\* of clean answers ends here, odd is 1 when the answer had a body with queries
\* and was not the page of the source that the request asked for
MathemCommit(queued, req, reqs, yielded, spoiled, odd, lastRec) ==
    /\ odd <= mathem_env.odd
    /\ mathem_env' = [mathem_env EXCEPT !.odd = @ - odd]
    /\ queued_subcategories' = queued
    /\ mathem_pending' = (mathem_pending (-) SetToBag({req})) (+) SeqToBag(reqs)
    /\ mathem_items' =
         [p \in MathemProducts |-> mathem_items[p] + (IF p \in yielded THEN 1 ELSE 0)]
    /\ mathem_fetched' =
         [k \in QueueKeys |-> [c \in 0..MaxCursor |->
            mathem_fetched[k][c]
            + Cardinality({i \in DOMAIN reqs :
                /\ reqs[i].kind = "category"
                /\ QueueKey(reqs[i]) = k
                /\ reqs[i].cursor = c})]]
    /\ mathem_clean' = [k \in QueueKeys |-> mathem_clean[k] /\ k \notin spoiled]
    /\ mathem_last' = lastRec
    /\ UNCHANGED mathem_server

\* MathemSpider.__init__
MathemConstructed ==
    /\ queued_subcategories = {}
    /\ mathem_started = FALSE
    /\ mathem_pending = EmptyBag
    /\ mathem_items = [p \in MathemProducts |-> 0]
    /\ mathem_fetched = [k \in QueueKeys |-> [c \in 0..MaxCursor |-> 0]]
    /\ mathem_clean = [k \in QueueKeys |-> TRUE]
    /\ mathem_last = [cb |-> "none", key |-> <<None, None>>, pages |-> <<>>,
                      followups |-> <<>>]

\* parse: a request for every category of the landing page
MathemParse ==
    /\ ~mathem_started
    /\ mathem_started' = TRUE
    /\ LET reqs == [i \in 1..mathem_env.landing |->
                      MathemCategoryRequest(i, None, None, None)]
       IN  /\ mathem_pending' = mathem_pending (+) SeqToBag(reqs)
           /\ mathem_last' = MathemLast("parse", MathemCategoryRequest(None, None, None, None),
                                        <<>>, reqs)
    /\ UNCHANGED <<queued_subcategories, mathem_items, mathem_fetched, mathem_clean,
                   mathem_server, mathem_env, icaVars, hemkopVars, coopVars, pipelineVars>>

\* parse_category on a payload without queries
ParseCategoryNoQueries ==
    \E req \in BagToSet(mathem_pending) :
      /\ req.kind = "category"
      /\ MathemCommit(queued_subcategories, req, <<>>, {}, {QueueKey(req)}, 0,
                      MathemLast("parse_category", req, <<>>, <<>>))
      /\ UNCHANGED <<mathem_started, icaVars, hemkopVars, coopVars, pipelineVars>>

\* parse_category on the payload of a category: _discover_subcategories over
\* the URIs of its chips and sections
ParseCategoryDiscover ==
    \E req \in BagToSet(mathem_pending), uris \in UriLists :
      /\ req.kind = "category"
      /\ req.subcategory_slug = None
      /\ LET q == QueueSubcategories(queued_subcategories, req.category_slug, uris)
         IN  MathemCommit(q.queued, req, q.reqs, {}, {}, 0,
                          MathemLast("parse_category", req, <<>>, q.reqs))
      /\ UNCHANGED <<mathem_started, icaVars, hemkopVars, coopVars, pipelineVars>>

\* parse_category on the payload of a subcategory that has pages
ParseSubcategoryPages ==
    \E req \in BagToSet(mathem_pending), pages \in PagesPayloads :
      /\ req.kind = "category"
      /\ req.subcategory_slug # None
      /\ LET reqs  == ExtractPages(req, pages)
             clean == HonestPages(req, pages)
         IN  MathemCommit(queued_subcategories, req, reqs, {},
                          IF clean THEN {} ELSE {QueueKey(req)},
                          IF clean THEN 0 ELSE 1,
                          MathemLast("parse_category", req, pages, reqs))
      /\ UNCHANGED <<mathem_started, icaVars, hemkopVars, coopVars, pipelineVars>>

\* parse_category on the payload of a subcategory that has no pages and has
\* blocks, one of them a product grid
ParseSubcategoryBlocks ==
    \E req \in BagToSet(mathem_pending), block \in BlockPayloads :
      /\ req.kind = "category"
      /\ req.subcategory_slug # None
      /\ LET reqs == ParseLegacyBlocks(req, block)
         IN  MathemCommit(queued_subcategories, req, reqs, {},
                          {QueueKey(req), <<req.category_slug, block.button>>}, 1,
                          MathemLast("parse_category", req, <<>>, reqs))
      /\ UNCHANGED <<mathem_started, icaVars, hemkopVars, coopVars, pipelineVars>>

\* parse_category on the payload of a subcategory that has neither pages nor
\* blocks: the sections fallback
ParseSubcategorySections ==
    \E req \in BagToSet(mathem_pending), uris \in UriLists :
      /\ req.kind = "category"
      /\ req.subcategory_slug # None
      /\ LET q == QueueSubcategories(queued_subcategories, req.category_slug, uris)
         IN  MathemCommit(q.queued, req, q.reqs, {}, {QueueKey(req)}, 1,
                          MathemLast("parse_category", req, <<>>, q.reqs))
      /\ UNCHANGED <<mathem_started, icaVars, hemkopVars, coopVars, pipelineVars>>

\* parse_product: one item
ParseProduct ==
    \E req \in BagToSet(mathem_pending) :
      /\ req.kind = "product"
      /\ MathemCommit(queued_subcategories, req, <<>>, {req.product}, {}, 0,
                      MathemLast("parse_product", req, <<>>, <<>>))
      /\ UNCHANGED <<mathem_started, icaVars, hemkopVars, coopVars, pipelineVars>>

MathemNext ==
    \/ MathemParse
    \/ ParseCategoryNoQueries
    \/ ParseCategoryDiscover
    \/ ParseSubcategoryPages
    \/ ParseSubcategoryBlocks
    \/ ParseSubcategorySections
    \/ ParseProduct

(***************************************************************************)
(* The Coop spider (coop_spider.py).  What the run finds at startup is the *)
(* environment: whether data/coop_category_ids.json exists, and which of   *)
(* the sources of the subscription key (the -a argument, the setting, the  *)
(* environment variable, the page of coop.se) yields a key.  A key is      *)
(* named by the source it came from.                                       *)
(***************************************************************************)
CoopCategories == 1..NumCoopCategories

CoopProducts == 1..NumCoopProducts

CoopSkips == {k * page_size : k \in 0..(MaxCoopPages - 1)}

\* the counts a listing response reports
CoopCounts == {0, 1} \cup {k * page_size + d : k \in 1..(MaxCoopPages - 1), d \in {0, 1}}

CoopConfigs == [mapping : BOOLEAN, arg : BOOLEAN, settings : BOOLEAN,
                environ : BOOLEAN, page : BOOLEAN]

\* results.items of a listing response; None is a product that is falsy
CoopListings == UNION {[1..n -> CoopProducts \cup {None}] : n \in 0..MaxCoopItems}

CoopPayloads == [items : CoopListings, count : CoopCounts]

CoopConstructed ==
    /\ coop_phase = "new"
    /\ coop_error = "none"
    /\ subscription_key = "None"
    /\ coop_engine_key = "None"
    /\ category_mapping = <<>>
    /\ coop_pending = EmptyBag
    /\ coop_items = [p \in CoopProducts |-> 0]
    /\ coop_fetched = [c \in CoopCategories |-> [s \in CoopSkips |-> 0]]
    /\ coop_reported = [c \in CoopCategories |->
                           [answered |-> FALSE, steady |-> TRUE, count |-> 0]]

\* _load_category_mapping: the mapping of the file, or the exception
LoadCategoryMapping(cfg) ==
    IF ~cfg.mapping
    THEN [error |-> "FileNotFoundError", value |-> <<>>]
    ELSE [error |-> "none", value |-> SetToSeq(CoopCategories)]

FetchSubscriptionKeyUnchecked(cfg) == [error |-> "none", key |-> IF cfg.page THEN "page" ELSE "None"]

\* _fetch_subscription_key: the key found in the page, or the exception
FetchSubscriptionKey(cfg) ==
    IF ~cfg.page
    THEN [error |-> "ValueError", key |-> "None"]
    ELSE [error |-> "none", key |-> "page"]

\* _resolve_subscription_key: the key and what the engine caches afterwards
ResolveSubscriptionKey(cfg, cached) ==
    IF cached # "None" THEN [error |-> "none", key |-> cached, cached |-> cached]
    ELSE IF cfg.settings
    THEN [error |-> "none", key |-> "settings", cached |-> "settings"]
    ELSE IF cfg.environ
    THEN [error |-> "none", key |-> "environ", cached |-> "environ"]
    ELSE LET fetched == FetchSubscriptionKey(cfg)
         IN  IF fetched.error # "none"
             THEN [error |-> fetched.error, key |-> "None", cached |-> cached]
             ELSE [error |-> "none", key |-> fetched.key, cached |-> fetched.key]

\* the JsonRequest of start_requests and of parse_listing with its meta
CoopRequest(category_id, skip, page, key) ==
    [category_id |-> category_id, skip |-> skip, page |-> page, key |-> key]

\* _build_item: an item for every product that is not falsy
CoopBuildItems(listing) == SelectSeq(listing, LAMBDA product : product # None)

\* __init__
CoopInit ==
    /\ coop_phase = "new"
    /\ LET loaded == LoadCategoryMapping(coop_config)
       IN  /\ subscription_key' = IF coop_config.arg THEN "arg" ELSE "None"
           /\ category_mapping' = loaded.value
           /\ coop_error' = loaded.error
           /\ coop_phase' = IF loaded.error = "none" THEN "constructed" ELSE "failed"
    /\ UNCHANGED <<coop_config, coop_engine_key, coop_pending, coop_items, coop_fetched,
                   coop_reported>>
    /\ UNCHANGED <<icaVars, hemkopVars, mathemVars, pipelineVars>>

\* start_requests, which the engine iterates once the pipeline is open
CoopStartRequests ==
    /\ coop_phase = "constructed"
    /\ pipeline_phase = "open"
    /\ LET resolved == IF subscription_key # "None"
                       THEN [error |-> "none", key |-> subscription_key,
                             cached |-> coop_engine_key]
                       ELSE ResolveSubscriptionKey(coop_config, coop_engine_key)
           reqs == [i \in DOMAIN category_mapping |->
                       CoopRequest(category_mapping[i], 0, 0, resolved.key)]
       IN  /\ subscription_key' = resolved.key
           /\ coop_engine_key' = resolved.cached
           /\ coop_error' = resolved.error
           /\ IF resolved.error # "none"
              THEN /\ coop_phase' = "failed"
                   /\ UNCHANGED <<coop_pending, coop_fetched>>
              ELSE /\ coop_phase' = "started"
                   /\ coop_pending' = coop_pending (+) SeqToBag(reqs)
                   /\ coop_fetched' =
                          [c \in CoopCategories |->
                              [s \in CoopSkips |->
                                  coop_fetched[c][s]
                                  + Cardinality({i \in DOMAIN reqs :
                                        reqs[i].category_id = c /\ reqs[i].skip = s})]]
    /\ UNCHANGED <<coop_config, category_mapping, coop_items, coop_reported>>
    /\ UNCHANGED <<icaVars, hemkopVars, mathemVars, pipelineVars>>

\* the history of the counts of a category after one more response
Reported(h, decoded, count) ==
    LET steady == decoded /\ h.steady /\ (h.answered => h.count = count)
    IN  [answered |-> TRUE, steady |-> steady, count |-> IF steady THEN count ELSE 0]

\* NextSkip without the test of the count
NextSkipAlways(skip, count) == {skip + page_size} \cap CoopSkips

\* the if of parse_listing: the skip of the next request, if there is one
NextSkip(skip, count) ==
    IF count # 0 /\ skip + page_size < count THEN {skip + page_size} ELSE {}

\* parse_listing of a response whose body is JSON
CoopParseListing ==
    \E req \in BagToSet(coop_pending), payload \in CoopPayloads :
      LET yielded == CoopBuildItems(payload.items)
          next == NextSkip(req.skip, payload.count)
          next_skip == req.skip + page_size
          more == next # {}
          reqs == IF more
                  THEN <<CoopRequest(req.category_id, next_skip, next_skip \div page_size,
                                    subscription_key)>>
                  ELSE <<>>
      IN  /\ coop_items' =
                 [p \in CoopProducts |->
                     coop_items[p] + Cardinality({i \in DOMAIN yielded : yielded[i] = p})]
          /\ coop_pending' = (coop_pending (-) SetToBag({req})) (+) SeqToBag(reqs)
          /\ coop_fetched' =
                 IF more
                 THEN [coop_fetched EXCEPT ![req.category_id][next_skip] = @ + 1]
                 ELSE coop_fetched
          /\ coop_reported' =
                 [coop_reported EXCEPT ![req.category_id] = Reported(@, TRUE, payload.count)]
          /\ UNCHANGED <<coop_config, coop_phase, coop_error, subscription_key,
                         coop_engine_key, category_mapping>>
          /\ UNCHANGED <<icaVars, hemkopVars, mathemVars, pipelineVars>>

\* parse_listing of a response whose body is not JSON: response.json() raises
\* and the callback yields nothing
CoopParseListingUndecodable ==
    \E req \in BagToSet(coop_pending) :
      /\ coop_pending' = coop_pending (-) SetToBag({req})
      /\ coop_reported' = [coop_reported EXCEPT ![req.category_id] = Reported(@, FALSE, 0)]
      /\ UNCHANGED <<coop_config, coop_phase, coop_error, subscription_key,
                     coop_engine_key, category_mapping, coop_items, coop_fetched>>
      /\ UNCHANGED <<icaVars, hemkopVars, mathemVars, pipelineVars>>

(***************************************************************************)
(* The persistence pipeline (pipeline.py, db_ops.py, connector.py).        *)
(***************************************************************************)
\* config.STORE_IDS
STORE_IDS == [coop |-> 1, hemkop |-> 2, ica |-> 3, mathem |-> 4, willys |-> 5]

StoreNames == {"None", "coop", "hemkop", "netto"}

EmptyTables ==
    [categories |-> {}, products |-> {}, store_products |-> {},
     category_seq |-> 0, product_seq |-> 0, aborted |-> FALSE]

NoCall ==
    [op |-> "none", key |-> <<>>, id |-> None, statements |-> 0, raised |-> FALSE,
     hit |-> FALSE, commit |-> FALSE]

PipelineConstructed ==
    /\ pipeline_phase = "none"
    /\ store_id = 0
    /\ pipe_count = 0
    /\ category_cache = <<>>
    /\ product_cache = <<>>
    /\ tables = EmptyTables
    /\ committed = EmptyTables
    /\ db_created = EmptyBag
    /\ db_returned = {}
    /\ db_last = NoCall
    /\ db_uncommitted = 0

\* from_crawler and __init__
PipelineFromCrawler ==
    /\ pipeline_phase = "none"
    /\ coop_phase = "constructed"
    /\ IF store_name_setting = "None" \/ store_name_setting \notin DOMAIN STORE_IDS
       THEN /\ pipeline_phase' = "failed"
            /\ store_id' = store_id
       ELSE /\ pipeline_phase' = "created"
            /\ store_id' = STORE_IDS[store_name_setting]
    /\ UNCHANGED <<store_name_setting, pipe_count, category_cache, product_cache,
                   tables, committed, db_created, db_returned, db_last,
                   db_uncommitted, db_env>>
    /\ UNCHANGED <<icaVars, hemkopVars, mathemVars, coopVars>>

\* open_spider
PipelineOpenSpider ==
    /\ pipeline_phase = "created"
    /\ pipeline_phase' = "open"
    /\ category_cache' = <<>>
    /\ product_cache' = <<>>
    /\ UNCHANGED <<store_name_setting, store_id, pipe_count, tables, committed,
                   db_created, db_returned, db_last, db_uncommitted, db_env>>
    /\ UNCHANGED <<icaVars, hemkopVars, mathemVars, coopVars>>

(***************************************************************************)
(* DBOps and the connector.  A table is a set of rows.  A row of           *)
(* categories is [id, name, ref] with ref = parent_category_id, a row of   *)
(* products is [id, name, ref] with ref = category_id, a row of            *)
(* store_products is [store_id, product_id, url, availability, reported]   *)
(* with availability the name of the row of availability_statuses that     *)
(* availability_status_id refers to, and reported the history of what the  *)
(* site said of the product; NULL is None.  The                            *)
(* connection runs with autocommit off: tables is what the open            *)
(* transaction sees, committed what a rollback goes back to.  The serial   *)
(* ids come from sequences, which a rollback does not reset.  A call of    *)
(* DBOps runs to completion, and what the database answers is the          *)
(* environment: an operator gives the set of the outcomes of a call.       *)
(***************************************************************************)
CategoryNames == 1..NumCategoryNames

ProductNames == 1..NumProductNames

SiteIds == 1..NumSiteIds

\* the items handed to process_item: they have no currency, unit, quantity
\* type or availability, and the url of an item names its product_id
PipelineItems ==
    {[product_id |-> i, url |-> i, name |-> n, subcategory |-> s, category |-> c,
      availability |-> "None", reported |-> "None"] :
        i \in SiteIds, n \in ProductNames \cup {None},
        s \in CategoryNames \cup {None}, c \in CategoryNames \cup {None}}

\* the outOfStock of a Hemkop payload: absent, true or false
OutOfStockValues == {"None", "True", "False"}

\* HemkopSpider._build_item: availability is the outOfStock of the detail, or
\* of the listing product when the detail has none
HemkopAvailability(listing_oos, detail_oos) ==
    IF detail_oos # "None" THEN detail_oos ELSE listing_oos

\* the items that the Hemkop spider builds from a listing product and a
\* detail: they have a name and no categories; reported is what the site
\* says of the stock, the detail before the listing
HemkopPipelineItems ==
    {[product_id |-> i, url |-> i, name |-> n, subcategory |-> None, category |-> None,
      availability |-> HemkopAvailability(l, d),
      reported |-> IF d # "None" THEN d ELSE l] :
        i \in SiteIds, n \in ProductNames, l \in OutOfStockValues,
        d \in OutOfStockValues}

\* normalize_availability of None and of a bool
NormalizeAvailability(value) ==
    IF value = "None" THEN "None"
    ELSE IF value = "True" THEN "available"
    ELSE "unavailable"

\* the state that a call of DBOps works on and its result: the id returned,
\* whether it raised, the statements it sent, and whether its key was cached
CallState ==
    [category_cache |-> category_cache, product_cache |-> product_cache,
     tables |-> tables, created |-> db_created, faults |-> db_env.faults,
     id |-> None, raised |-> FALSE, statements |-> 0, hit |-> FALSE]

\* connection.rollback()
Rollback(t) ==
    [committed EXCEPT !.category_seq = t.category_seq, !.product_seq = t.product_seq]

\* connection.commit(): the commit of an aborted transaction is a rollback
CommitTables(t) == IF t.aborted THEN Rollback(t) ELSE t

\* uq_categories_name_parent and uq_products_name_category: the rows that an
\* INSERT of (name, ref) conflicts with
Conflicting(rows, name, ref) ==
    {r \in rows : r.name = name /\ r.ref = ref
                  /\ (ref # None \/ ~db_env.nulls_distinct)}

\* WHERE name = %s AND COALESCE(ref, 0) = COALESCE(%s, 0)
Matching(rows, name, ref) == {r \in rows : r.name = name /\ r.ref = ref}

\* sql_query raises: the statement failed, or the transaction was aborted
\* already; the connector rolls back
QueryFailed(d) ==
    [d EXCEPT !.tables = Rollback(d.tables), !.raised = TRUE,
              !.statements = @ + 1]

\* sql_query of the statement WITH ins AS (INSERT ... ON CONFLICT ... DO
\* NOTHING RETURNING id) SELECT id FROM ins UNION ALL SELECT id FROM table
\* WHERE ... LIMIT 1, sent for the cache key: the outcomes
InsertOrSelect(d, table, seq, key, name, ref) ==
    LET rows     == d.tables[table]
        inserts  == Conflicting(rows, name, ref) = {}
        new_id   == d.tables[seq] + 1
        found    == {r.id : r \in Matching(rows, name, ref)}
        answers  == IF inserts THEN {new_id} \cup found ELSE found
        after    == IF inserts
                    THEN [d.tables EXCEPT
                             ![table] = rows \cup {[id |-> new_id, name |-> name,
                                                    ref |-> ref]},
                             ![seq] = new_id]
                    ELSE d.tables
        done(id) == [d EXCEPT !.tables = after, !.id = id, !.statements = @ + 1,
                              !.created = IF inserts
                                          THEN @ (+) SetToBag({<<table, key>>})
                                          ELSE @]
    IN  IF d.tables.aborted THEN {QueryFailed(d)}
        ELSE {done(id) : id \in answers}
             \cup (IF d.faults > 0
                   THEN {QueryFailed([d EXCEPT !.faults = @ - 1])}
                   ELSE {})

\* get_or_create_category: the outcomes
RECURSIVE GetOrCreateCategory(_, _, _)
GetOrCreateCategory(d, name, parent_name) ==
    LET key == <<name, parent_name>>
    IN  IF name = None THEN {[d EXCEPT !.id = None]}
        ELSE IF key \in DOMAIN d.category_cache
        THEN {[d EXCEPT !.id = d.category_cache[key], !.hit = TRUE]}
        ELSE LET parents == IF parent_name # None
                            THEN GetOrCreateCategory(d, parent_name, None)
                            ELSE {[d EXCEPT !.id = None]}
                 own(p) == IF p.raised THEN {p}
                           ELSE {IF q.raised THEN q
                                 ELSE [q EXCEPT !.category_cache = (key :> q.id) @@ @]
                                 : q \in InsertOrSelect([p EXCEPT !.hit = FALSE],
                                                        "categories", "category_seq",
                                                        key, name, p.id)}
             IN  UNION {own(p) : p \in parents}

GetOrCreateProductUncached(d, name, category_id) ==
    LET key == <<name, category_id>>
    IN  IF key \in DOMAIN d.product_cache
        THEN {[d EXCEPT !.id = d.product_cache[key], !.hit = TRUE]}
        ELSE InsertOrSelect(d, "products", "product_seq", key, name, category_id)

\* get_or_create_product: the outcomes
GetOrCreateProduct(d, name, category_id) ==
    LET key == <<name, category_id>>
    IN  IF key \in DOMAIN d.product_cache
        THEN {[d EXCEPT !.id = d.product_cache[key], !.hit = TRUE]}
        ELSE {IF q.raised THEN q
              ELSE [q EXCEPT !.product_cache = (key :> q.id) @@ @]
              : q \in InsertOrSelect(d, "products", "product_seq", key, name,
                                     category_id)}

\* upsert_store_product for an item without currency, unit and quantity
\* type: the availability is normalised and looked up; non_sql_query of INSERT ... ON CONFLICT (store_id,
\* product_id) DO UPDATE; when it raises the connector does not roll back and
\* the transaction stays aborted
UpsertStoreProduct(d, store, product_id, item) ==
    LET rows  == d.tables.store_products
        kept  == {r \in rows : ~(r.store_id = store /\ r.product_id = product_id)}
        row   == [store_id |-> store, product_id |-> product_id, url |-> item.url,
                  availability |-> NormalizeAvailability(item.availability),
                  reported |-> item.reported]
        fails(e) == [e EXCEPT !.tables.aborted = TRUE, !.raised = TRUE,
                              !.statements = @ + 1]
    IN  IF d.tables.aborted THEN {fails(d)}
        ELSE {[d EXCEPT !.tables.store_products = kept \cup {row},
                        !.statements = @ + 1]}
             \cup (IF d.faults > 0 THEN {fails([d EXCEPT !.faults = @ - 1])} ELSE {})

\* the try block of process_item: the outcomes
ProcessItemTry(d, item) ==
    UNION {IF c.raised THEN {c}
           ELSE UNION {IF p.raised THEN {p}
                       ELSE UpsertStoreProduct(p, store_id, p.id, item)
                       : p \in GetOrCreateProduct(c, item.name, c.id)}
           : c \in GetOrCreateCategory(d, item.subcategory, item.category)}

\* CommitDue with the commit one item late
CommitDueLate(count) == count % COMMIT_EVERY = 1

\* if self._count % 100 == 0
CommitDue(count) == count % COMMIT_EVERY = 0

\* store what a call left behind; stored says that the call committed
DbCommit(op, key, d, count, stored) ==
    /\ db_env.calls > 0
    /\ db_env' = [db_env EXCEPT !.calls = @ - 1, !.faults = d.faults]
    /\ category_cache' = d.category_cache
    /\ product_cache' = d.product_cache
    /\ tables' = IF stored THEN CommitTables(d.tables) ELSE d.tables
    /\ committed' = IF stored THEN CommitTables(d.tables) ELSE committed
    /\ db_created' = d.created
    /\ db_returned' = IF d.raised \/ (op = "process_item" /\ d.statements = 0)
                      THEN db_returned
                      ELSE db_returned \cup {<<op, key, d.id>>}
    /\ pipe_count' = count
    /\ db_last' = [op |-> op, key |-> key, id |-> d.id, statements |-> d.statements,
                   raised |-> d.raised, hit |-> d.hit, commit |-> stored]
    /\ db_uncommitted' =
         IF stored THEN 0
         ELSE IF op = "process_item" /\ ~d.raised /\ d.statements > 0
         THEN db_uncommitted + 1
         ELSE db_uncommitted

\* a call of DBOps.get_or_create_category
CallGetOrCreateCategory ==
    \E name \in CategoryNames \cup {None}, parent_name \in CategoryNames \cup {None} :
      \E d \in GetOrCreateCategory(CallState, name, parent_name) :
        /\ pipeline_phase = "open"
        /\ DbCommit("get_or_create_category", <<name, parent_name>>, d, pipe_count, FALSE)
        /\ UNCHANGED <<store_name_setting, pipeline_phase, store_id>>
        /\ UNCHANGED <<icaVars, hemkopVars, mathemVars, coopVars>>

\* a call of DBOps.get_or_create_product with the id of a category row, or None
CallGetOrCreateProduct ==
    \E name \in ProductNames,
       category_id \in {r.id : r \in tables.categories} \cup {None} :
      \E d \in GetOrCreateProduct(CallState, name, category_id) :
        /\ pipeline_phase = "open"
        /\ DbCommit("get_or_create_product", <<name, category_id>>, d, pipe_count, FALSE)
        /\ UNCHANGED <<store_name_setting, pipeline_phase, store_id>>
        /\ UNCHANGED <<icaVars, hemkopVars, mathemVars, coopVars>>

\* process_item of an item without a name
ProcessItemNameless ==
    \E item \in PipelineItems :
      /\ pipeline_phase = "open"
      /\ item.name = None
      /\ DbCommit("process_item", <<item.product_id, item.name>>, CallState,
                  pipe_count, FALSE)
      /\ UNCHANGED <<store_name_setting, pipeline_phase, store_id>>
      /\ UNCHANGED <<icaVars, hemkopVars, mathemVars, coopVars>>

\* process_item of one of the items handed, which has a name
ProcessItemOf(handed) ==
    \E item \in handed :
      \E d \in ProcessItemTry(CallState, item) :
        /\ pipeline_phase = "open"
        /\ item.name # None
        /\ LET count == IF d.raised THEN pipe_count ELSE pipe_count + 1
           IN  DbCommit("process_item", <<item.product_id, item.name>>, d, count,
                        ~d.raised /\ CommitDue(count))
        /\ UNCHANGED <<store_name_setting, pipeline_phase, store_id>>
        /\ UNCHANGED <<icaVars, hemkopVars, mathemVars, coopVars>>

\* process_item of an item with a name
ProcessItem == ProcessItemOf(PipelineItems)

\* close_spider: the final commit, then the connection is closed
PipelineCloseSpider ==
    /\ pipeline_phase = "open"
    /\ pipeline_phase' = "closed"
    /\ tables' = CommitTables(tables)
    /\ committed' = CommitTables(tables)
    /\ db_last' = [op |-> "close_spider", key |-> <<>>, id |-> None, statements |-> 0,
                   raised |-> FALSE, hit |-> FALSE, commit |-> TRUE]
    /\ db_uncommitted' = 0
    /\ UNCHANGED <<store_name_setting, store_id, pipe_count, category_cache,
                   product_cache, db_created, db_returned, db_env>>
    /\ UNCHANGED <<icaVars, hemkopVars, mathemVars, coopVars>>

vars == <<icaVars, hemkopVars, mathemVars, coopVars, pipelineVars>>

MathemIdle ==
    /\ MathemConstructed
    /\ mathem_server = [u \in Uris |-> 1]
    /\ mathem_env = [odd |-> 0, landing |-> 0]

\* the spiders that a specification leaves alone stay as constructed
IcaIdle ==
    /\ Constructed
    /\ root_categories = <<>>
    /\ env = [blocks |-> 0, faults |-> 0, endless |-> FALSE, queue |-> FALSE]

HemkopIdle ==
    /\ HemkopConstructed
    /\ hemkop_server = [s \in Slugs |-> 1]
    /\ hemkop_env = [odd |-> 0]

(***************************************************************************)
(* SpecCoop: a Coop run from the construction of the spider, with any      *)
(* startup configuration, against a server that lists NumCoopProducts      *)
(* products in NumCoopCategories categories.                               *)
(***************************************************************************)
CoopIdle ==
    /\ CoopConstructed
    /\ coop_config = [mapping |-> TRUE, arg |-> TRUE, settings |-> FALSE,
                      environ |-> FALSE, page |-> FALSE]

PipelineIdle ==
    /\ PipelineConstructed
    /\ store_name_setting = "coop"
    /\ db_env = [nulls_distinct |-> FALSE, faults |-> 0, calls |-> 0]

CoopRunInit ==
    /\ IcaIdle
    /\ HemkopIdle
    /\ MathemIdle
    /\ CoopConstructed
    /\ coop_config \in CoopConfigs
    /\ PipelineConstructed
    /\ store_name_setting \in StoreNames
    /\ db_env = [nulls_distinct |-> FALSE, faults |-> 0, calls |-> 0]

CoopNext ==
    \/ CoopInit
    \/ PipelineFromCrawler
    \/ PipelineOpenSpider
    \/ CoopStartRequests
    \/ CoopParseListing
    \/ CoopParseListingUndecodable

SpecCoop == CoopRunInit /\ [][CoopNext]_vars

(***************************************************************************)
(* SpecDbOps: up to MaxDbCalls calls of get_or_create_category and         *)
(* get_or_create_product on the DBOps of an open pipeline, with up to      *)
(* MaxDbFaults failing statements.  SpecPipeline: up to MaxHanded items    *)
(* handed to process_item, then close_spider.  The database is empty at    *)
(* first, and its unique constraints take NULLs as distinct or not.        *)
(***************************************************************************)
PipelineOpened ==
    /\ pipeline_phase = "open"
    /\ store_id = STORE_IDS[store_name_setting]
    /\ pipe_count = 0
    /\ category_cache = <<>>
    /\ product_cache = <<>>
    /\ tables = EmptyTables
    /\ committed = EmptyTables
    /\ db_created = EmptyBag
    /\ db_returned = {}
    /\ db_last = NoCall
    /\ db_uncommitted = 0

DbOpsInit ==
    /\ IcaIdle
    /\ HemkopIdle
    /\ MathemIdle
    /\ CoopIdle
    /\ store_name_setting = "coop"
    /\ PipelineOpened
    /\ db_env \in [nulls_distinct : BOOLEAN, faults : {MaxDbFaults}, calls : {MaxDbCalls}]

PipelineInit ==
    /\ IcaIdle
    /\ HemkopIdle
    /\ MathemIdle
    /\ CoopIdle
    /\ store_name_setting = "coop"
    /\ PipelineOpened
    /\ db_env \in [nulls_distinct : BOOLEAN, faults : {MaxDbFaults}, calls : {MaxHanded}]

DbOpsNext ==
    \/ CallGetOrCreateCategory
    \/ CallGetOrCreateProduct

SpecDbOps == DbOpsInit /\ [][DbOpsNext]_vars

PipelineNext ==
    \/ ProcessItemNameless
    \/ ProcessItem
    \/ PipelineCloseSpider

SpecPipeline == PipelineInit /\ [][PipelineNext]_vars

\* SpecCadence: an open pipeline to which one item without categories, with
\* the product name 1 and the site id 1, was handed CadenceStart times
\* without a failing statement; up to MaxHanded more items, then close_spider
CadenceInit ==
    /\ IcaIdle
    /\ HemkopIdle
    /\ MathemIdle
    /\ CoopIdle
    /\ store_name_setting = "coop"
    /\ pipeline_phase = "open"
    /\ store_id = STORE_IDS[store_name_setting]
    /\ pipe_count = CadenceStart
    /\ db_uncommitted = CadenceStart
    /\ category_cache = <<>>
    /\ product_cache = (<<1, None>> :> 1)
    /\ tables = [EmptyTables EXCEPT
                    !.products = {[id |-> 1, name |-> 1, ref |-> None]},
                    !.store_products = {[store_id |-> STORE_IDS[store_name_setting],
                                         product_id |-> 1, url |-> 1,
                                         availability |-> "None",
                                         reported |-> "None"]},
                    !.product_seq = 1]
    /\ committed = EmptyTables
    /\ db_created = SetToBag({<<"products", <<1, None>>>>})
    /\ db_returned = {<<"process_item", <<1, 1>>, 1>>}
    /\ db_last = [op |-> "process_item", key |-> <<1, 1>>, id |-> 1, statements |-> 1,
                  raised |-> FALSE, hit |-> TRUE, commit |-> FALSE]
    /\ db_env \in [nulls_distinct : BOOLEAN, faults : {MaxDbFaults}, calls : {MaxHanded}]

SpecCadence == CadenceInit /\ [][PipelineNext]_vars

\* SpecAvailability: the open pipeline of a Hemkop run, to which up to
\* MaxHanded of the items that the Hemkop spider builds are handed
AvailabilityInit ==
    /\ IcaIdle
    /\ HemkopIdle
    /\ MathemIdle
    /\ CoopIdle
    /\ store_name_setting = "hemkop"
    /\ PipelineOpened
    /\ db_env \in [nulls_distinct : BOOLEAN, faults : {MaxDbFaults}, calls : {MaxHanded}]

AvailabilityNext ==
    \/ ProcessItemOf(HemkopPipelineItems)
    \/ PipelineCloseSpider

SpecAvailability == AvailabilityInit /\ [][AvailabilityNext]_vars

(***************************************************************************)
(* Spec: the crawl of a server that knows NumCats categories and NumProds  *)
(* products.  SpecRetry: the crawl of a server that knows one category and *)
(* one product and answers 202/403 up to RetryBlocks times.                *)
(***************************************************************************)
Init ==
    /\ HemkopIdle
    /\ MathemIdle
    /\ CoopIdle
    /\ PipelineIdle
    /\ Constructed
    /\ root_categories = SetToSeq(1..NumSeeds)
    /\ env = [blocks |-> MaxBlocks, faults |-> MaxFaults, endless |-> FALSE, queue |-> FALSE]

Next == IcaNext(ListingPayloads, BatchPayloads)

Spec == Init /\ [][Next]_vars

RetryInit ==
    /\ HemkopIdle
    /\ MathemIdle
    /\ CoopIdle
    /\ PipelineIdle
    /\ Constructed
    /\ root_categories = <<1>>
    /\ env = [blocks |-> RetryBlocks, faults |-> RetryFaults, endless |-> FALSE, queue |-> FALSE]

RetryNext == IcaNext(RetryListingPayloads, RetryBatchPayloads)

SpecRetry == RetryInit /\ [][RetryNext]_vars

(***************************************************************************)
(* SpecBatch: the crawl of a server whose listings have no subcategories,  *)
(* inline no product and reference the product ids 1..n in one group, for  *)
(* any n up to MaxIds.                                                     *)
(***************************************************************************)
IdRun(n) == [i \in 1..n |-> i]

BatchListingPayloads ==
    {[categories |-> {}, entities |-> [p \in Prods |-> "absent"], groups |-> <<IdRun(n)>>] :
        n \in 0..MaxIds}

BatchNext == IcaNext(BatchListingPayloads, RetryBatchPayloads)

SpecBatch == Init /\ [][BatchNext]_vars

(***************************************************************************)
(* SpecScenario: the crawl of the seeds 1 and 2 on a server where listing  *)
(* 1 inlines the products 1 and 2 and has the child category 3, listing 3  *)
(* inlines product 3, and listing 2 inlines nothing and references         *)
(* product 3 in a product group.  A batch answer has every product that    *)
(* the request names.  The server answers 202/403 up to ScenarioBlocks     *)
(* times.                                                                  *)
(***************************************************************************)
ScenarioEntities(prods) == [p \in Prods |-> IF p \in prods THEN "complete" ELSE "absent"]

ScenarioListing(category_id) ==
    CASE category_id = 1 ->
           [categories |-> {3}, entities |-> ScenarioEntities({1, 2}), groups |-> <<<<1, 2>>>>]
      [] category_id = 2 ->
           [categories |-> {}, entities |-> ScenarioEntities({}), groups |-> <<<<3>>>>]
      [] category_id = 3 ->
           [categories |-> {}, entities |-> ScenarioEntities({3}), groups |-> <<<<3>>>>]
      [] OTHER ->
           [categories |-> {}, entities |-> ScenarioEntities({}), groups |-> <<>>]

ScenarioBatch(product_ids) == [products |-> ScenarioEntities(Range(product_ids))]

ScenarioInit ==
    /\ HemkopIdle
    /\ MathemIdle
    /\ CoopIdle
    /\ PipelineIdle
    /\ Constructed
    /\ root_categories = <<1, 2>>
    /\ env = [blocks |-> ScenarioBlocks, faults |-> 0, endless |-> FALSE, queue |-> FALSE]

\* parse_category on the 200 response of the scenario's server
ScenarioParseCategory ==
    \E req \in BagToSet(pending) :
      /\ req.kind = "category"
      /\ ListingAnswered(req, 200, ScenarioListing(req.category_id))

\* parse_product_batch on the 200 response of the scenario's server
ScenarioParseBatch ==
    \E req \in BagToSet(pending) :
      /\ req.kind = "batch"
      /\ BatchAnswered(req, ScenarioBatch(req.product_ids))

ScenarioNext ==
    \/ StartRequests
    \/ ParseCategorySoftBlock
    \/ ScenarioParseCategory
    \/ ParseBatchBlocked
    \/ ScenarioParseBatch

SpecScenario == ScenarioInit /\ [][ScenarioNext]_vars

(***************************************************************************)
(* SpecClock: the crawl of the server of SpecRetry with a clock and an     *)
(* engine that has a queue.  The clock advances in steps of TickStep       *)
(* seconds up to MaxNow; the server answers 202/403 up to ClockBlocks      *)
(* times and the solver fails up to ClockFaults times.                     *)
(***************************************************************************)
ClockInit ==
    /\ HemkopIdle
    /\ MathemIdle
    /\ CoopIdle
    /\ PipelineIdle
    /\ Constructed
    /\ root_categories = <<1>>
    /\ env = [blocks |-> ClockBlocks, faults |-> ClockFaults, endless |-> FALSE,
              queue |-> TRUE]

ClockNext ==
    \/ Tick
    \/ EngineSend
    \/ IcaNext(RetryListingPayloads, RetryBatchPayloads)

SpecClock == ClockInit /\ [][ClockNext]_vars

(***************************************************************************)
(* SpecRefresh: the reactor thread and the worker threads of up to         *)
(* MaxCalls calls of _refresh_session, between callbacks that build        *)
(* requests from the session, with up to MaxBuilt requests in flight.      *)
(***************************************************************************)
RefreshInit ==
    /\ HemkopIdle
    /\ MathemIdle
    /\ CoopIdle
    /\ PipelineIdle
    /\ Constructed
    /\ root_categories = <<1>>
    /\ env = [blocks |-> 0, faults |-> 0, endless |-> FALSE, queue |-> FALSE]

SpecRefresh == RefreshInit /\ [][RefreshNext]_vars

\* SpecRefreshClock: the same with a clock that advances between any two steps
RefreshClockNext ==
    \/ Tick
    \/ RefreshNext

SpecRefreshClock == RefreshInit /\ [][RefreshClockNext]_vars

(***************************************************************************)
(* SpecLive: the crawl of a server that knows one category without         *)
(* subcategories and one product, and that may answer 202/403 to every     *)
(* request.  The engine answers every request it holds: a callback that    *)
(* stays enabled is eventually run.                                        *)
(***************************************************************************)
LiveListingPayloads == {p \in RetryListingPayloads : p.categories = {}}

LiveInit ==
    /\ HemkopIdle
    /\ MathemIdle
    /\ CoopIdle
    /\ PipelineIdle
    /\ Constructed
    /\ root_categories = <<1>>
    /\ env = [blocks |-> 0, faults |-> LiveFaults, endless |-> TRUE, queue |-> FALSE]

AnswerCategory ==
    \/ ParseCategorySoftBlock
    \/ ParseCategoryUndecodable
    \/ ParseCategoryListing(LiveListingPayloads)

AnswerBatch ==
    \/ ParseBatchBlocked
    \/ ParseBatchUndecodable
    \/ ParseBatchProducts(RetryBatchPayloads)

LiveNext == IcaNext(LiveListingPayloads, RetryBatchPayloads)

(***************************************************************************)
(* SpecHemkop: the Hemkop crawl of a server whose categories have 1 to     *)
(* MaxPages listing pages.                                                 *)
(***************************************************************************)
HemkopInit ==
    /\ IcaIdle
    /\ MathemIdle
    /\ CoopIdle
    /\ PipelineIdle
    /\ HemkopConstructed
    /\ hemkop_server \in [Slugs -> 1..MaxPages]
    /\ hemkop_env = [odd |-> MaxOdd]

SpecHemkop == HemkopInit /\ [][HemkopNext]_vars

\* SpecSparse: the Hemkop crawl of a server whose categories have
\* SparsePages listing pages, the history keeping the payloads without products
SparseInit ==
    /\ IcaIdle
    /\ MathemIdle
    /\ CoopIdle
    /\ PipelineIdle
    /\ HemkopConstructed
    /\ hemkop_server = [s \in Slugs |-> SparsePages]
    /\ hemkop_env = [odd |-> MaxOdd]

SpecSparse == SparseInit /\ [][SparseNext]_vars

(***************************************************************************)
(* SpecMathem: the Mathem crawl of a server whose subcategory sources have *)
(* 1 to MaxCursor pages.                                                   *)
(***************************************************************************)
MathemInit ==
    /\ IcaIdle
    /\ HemkopIdle
    /\ CoopIdle
    /\ PipelineIdle
    /\ MathemConstructed
    /\ mathem_server \in [Uris -> 1..MaxCursor]
    /\ mathem_env = [odd |-> MaxMathemOdd, landing |-> NumLanding]

SpecMathem == MathemInit /\ [][MathemNext]_vars

(***************************************************************************)
(* SpecMathemWide: the Mathem crawl of a landing page with every category, *)
(* against a server whose subcategory sources have one page.               *)
(***************************************************************************)
MathemWideInit ==
    /\ IcaIdle
    /\ HemkopIdle
    /\ CoopIdle
    /\ PipelineIdle
    /\ MathemConstructed
    /\ mathem_server = [u \in Uris |-> 1]
    /\ mathem_env = [odd |-> MaxMathemOdd, landing |-> NumMathemCategories]

SpecMathemWide == MathemWideInit /\ [][MathemNext]_vars

SpecLive ==
    /\ LiveInit
    /\ [][LiveNext]_vars
    /\ WF_vars(StartRequests)
    /\ WF_vars(AnswerCategory)
    /\ WF_vars(AnswerBatch)

(***************************************************************************)
(* SpecDecode: the ICA crawl of the server of SpecRetry and the Hemkop     *)
(* crawl of a server whose categories have one page, side by side, each    *)
(* server answering any of its requests with a body that is not JSON.  The *)
(* ICA server answers 202/403 up to DecodeBlocks times.                    *)
(***************************************************************************)
DecodeInit ==
    /\ MathemIdle
    /\ CoopIdle
    /\ PipelineIdle
    /\ Constructed
    /\ root_categories = <<1>>
    /\ env = [blocks |-> DecodeBlocks, faults |-> 0, endless |-> FALSE, queue |-> FALSE]
    /\ HemkopConstructed
    /\ hemkop_server = [s \in Slugs |-> 1]
    /\ hemkop_env = [odd |-> 0]

DecodeNext ==
    \/ IcaNext(RetryListingPayloads, RetryBatchPayloads)
    \/ HemkopNext

SpecDecode == DecodeInit /\ [][DecodeNext]_vars

(***************************************************************************)
(* SpecSpiders: a run of any one of the three spiders, the ICA spider      *)
(* against the server of SpecRetry, the Hemkop spider against a server     *)
(* whose categories have one page, the Mathem spider against the server of *)
(* SpecMathem.  The spider that runs is the one whose Init gave it seeds:  *)
(* the ICA spider has root categories, the Mathem spider a landing page    *)
(* with categories, and the Hemkop spider runs when neither has.           *)
(***************************************************************************)
HemkopFlatInit ==
    /\ IcaIdle
    /\ MathemIdle
    /\ CoopIdle
    /\ PipelineIdle
    /\ HemkopConstructed
    /\ hemkop_server = [s \in Slugs |-> 1]
    /\ hemkop_env = [odd |-> MaxOdd]

SpidersInit == RetryInit \/ HemkopFlatInit \/ MathemInit

SpidersNext ==
    \/ /\ root_categories # <<>>
       /\ IcaNext(RetryListingPayloads, RetryBatchPayloads)
    \/ /\ root_categories = <<>>
       /\ mathem_env.landing = 0
       /\ HemkopNext
    \/ /\ mathem_env.landing > 0
       /\ MathemNext

SpecSpiders == SpidersInit /\ [][SpidersNext]_vars

(***************************************************************************)
(* Claims about the ICA spider.                                            *)
(***************************************************************************)
IsCallback == last.cb \in {"parse_category", "parse_product_batch"}

\* C1: an item with a given product_id is yielded at most once per run, however
\* many listing and batch responses contain the product.
C1_ItemYieldedAtMostOnce == \A pid \in Prods : items[pid] <= 1

\* a batch response offered a product that a listing had emitted before, and no
\* second item was yielded for it
C1_Witness ==
    /\ last.cb = "parse_product_batch"
    /\ last.status = 200
    /\ \E pid \in last.suppressed : items[pid] = 1

\* C2: of the requests that were sent under one WAF token and all came back 202,
\* only the first triggers _refresh_session: a 202 callback for a request whose
\* token has been replaced since it was built does not run the refresh again.
C2_SessionDebounce ==
    (IsCallback /\ last.status = 202 /\ last.stale) => last.refreshes = 0

\* C3: a batch whose every answer is a 202 is requested at most 1 +
\* MAX_WAF_RETRIES times: no request is issued for it after its 4th 202.
C3_BatchRetryBounded ==
    \A r \in BagToSet(pending) :
        (r.kind = "batch" /\ r.denied = 0) => r.soft <= MAX_WAF_RETRIES

\* C4: a 202 to a category request with fewer than MAX_WAF_RETRIES retries runs
\* the refresh and yields exactly one request, the same category with the retry
\* count raised by one; a 202 to a request with MAX_WAF_RETRIES retries (the 4th
\* in a row) yields nothing; no category request has more than MAX_WAF_RETRIES
\* retries.
C4_CategoryRetryBounded ==
    [][ /\ \A r \in BagToSet(pending') : r.kind = "category" => r.waf_retries <= MAX_WAF_RETRIES
        /\ (last'.cb = "parse_category" /\ last'.status = 202) =>
             /\ items' = items
             /\ visited_categories' = visited_categories
             /\ emitted_product_ids' = emitted_product_ids
             /\ \E r \in BagToSet(pending) :
                  /\ r.kind = "category"
                  /\ r.waf_retries = last'.retries
                  /\ IF r.waf_retries < MAX_WAF_RETRIES
                     THEN /\ last'.refreshes >= 1
                          /\ pending' = (pending (-) SetToBag({r})) (+)
                                SetToBag({[r EXCEPT !.waf_retries = @ + 1,
                                                    !.waf = waf_token',
                                                    !.dont_filter = TRUE]})
                     ELSE /\ last'.refreshes = 0
                          /\ pending' = pending (-) SetToBag({r})
      ]_vars

\* the 4th 202 in a row to a category request was answered by dropping it
C4_Witness ==
    /\ last.cb = "parse_category"
    /\ last.status = 202
    /\ last.retries = MAX_WAF_RETRIES
    /\ pending = EmptyBag

\* C5: a first-attempt listing request for a category id is yielded at most once
\* per run.
C5_CategoryEnqueuedOnce == \A c \in Cats : first_requests[c] <= 1

\* C10: a product id is in at most one enrichment batch request: no two requests
\* in flight both carry it.
C10_EnrichedAtMostOnce ==
    \A pid \in Prods :
        BagCardinality([r \in {q \in BagToSet(pending) :
                                 q.kind = "batch" /\ pid \in Range(q.product_ids)}
                          |-> pending[r]]) <= 1

\* C6: the crawl eventually has no pending request and stays without one.
C6_CrawlTerminates == <>[](started /\ pending = EmptyBag)

\* C9: the batch requests a listing callback yields carry consecutive chunks of
\* its remaining_ids list: their concatenation is the list, no chunk is empty or
\* longer than BATCH_SIZE, every chunk but the last is full, and 127 ids give
\* chunks of 50, 50 and 27.
C9_ChunksPartitionRemaining ==
    (last.cb = "parse_category" /\ last.status # 202) =>
        /\ Flatten(last.chunks) = last.remaining
        /\ \A i \in DOMAIN last.chunks :
              /\ Len(last.chunks[i]) \in 1..BATCH_SIZE
              /\ i < Len(last.chunks) => Len(last.chunks[i]) = BATCH_SIZE
        /\ last.remaining = <<>> => last.chunks = <<>>
        /\ Len(last.remaining) = 127 =>
              [i \in DOMAIN last.chunks |-> Len(last.chunks[i])] = <<50, 50, 27>>

\* a listing referenced 127 product ids and three batch requests are in flight
C9_Witness ==
    /\ last.cb = "parse_category"
    /\ Len(last.remaining) = 127
    /\ Len(last.chunks) = 3
    /\ BagCardinality(pending) = 3

(***************************************************************************)
(* Claims about the Hemkop spider.                                         *)
(***************************************************************************)
ListingInFlight(s) ==
    \E r \in BagToSet(hemkop_pending) : r.kind = "listing" /\ r.full_slug = s

\* C7: for a category whose every response reported the requested page and
\* numberOfPages = N, no page is requested twice, no page from N on is
\* requested, the pages are requested in order, and once no listing request
\* of the category is in flight each of the pages 0..N-1 was requested once; a
\* payload without pagination yields no next-page request and leaves no listing
\* request of its category in flight.
C7_OffsetPagination ==
    /\ \A s \in Slugs : hemkop_honest[s] =>
          /\ \A p \in 0..(MaxPages + 1) :
                /\ hemkop_fetched[s][p] <= 1
                /\ p >= hemkop_server[s] => hemkop_fetched[s][p] = 0
                /\ (p > 0 /\ hemkop_fetched[s][p] = 1) => hemkop_fetched[s][p - 1] = 1
          /\ (s \in queued_slugs /\ ~ListingInFlight(s)) =>
                \A p \in 0..(hemkop_server[s] - 1) : hemkop_fetched[s][p] = 1
    /\ (hemkop_last.cb = "parse_product_listing" /\ hemkop_last.bare) =>
          /\ hemkop_last.next = <<>>
          /\ ~ListingInFlight(hemkop_last.full_slug)

\* a category of three pages was answered page by page and has come to its end
C7_Witness ==
    \E s \in Slugs :
        /\ hemkop_honest[s]
        /\ hemkop_server[s] = 3
        /\ s \in queued_slugs
        /\ ~ListingInFlight(s)
        /\ hemkop_last.cb = "parse_product_listing"
        /\ hemkop_last.full_slug = s
        /\ hemkop_last.page = 2

\* C23: page 0 of a category slug is requested at most once, and exactly the
\* queued slugs have had it requested, whatever the seeds and the subCategories
\* of the responses name and however often
C23_PageZeroOnce ==
    \A s \in Slugs :
        /\ hemkop_fetched[s][0] <= 1
        /\ s \in queued_slugs <=> hemkop_fetched[s][0] = 1

\* a later page of a category named a slug that was queued already, and page
\* 0 of that slug has been requested once
C23_Witness ==
    /\ hemkop_last.cb = "parse_product_listing"
    /\ hemkop_last.page > 0
    /\ \E s \in hemkop_last.rediscovered :
          /\ s # hemkop_last.full_slug
          /\ hemkop_fetched[s][0] = 1

\* C30: parse_product_detail on a response whose body is not JSON yields no
\* item and no request, and takes nothing but the answered request out of the
\* pending ones
C30_UndecodableDetailSkipped ==
    [][(/\ hemkop_pending' # hemkop_pending
        /\ hemkop_last'.cb = "parse_product_detail"
        /\ ~hemkop_last'.decoded) =>
          /\ hemkop_items' = hemkop_items
          /\ hemkop_fetched' = hemkop_fetched
          /\ \E r \in BagToSet(hemkop_pending) :
                hemkop_pending' = hemkop_pending (-) SetToBag({r})]_vars

\* C35: for every product code at most one detail request is yielded in a
\* run, and a code whose detail request failed has no item, however often the
\* listing pages name it
C35_OneDetailRequestPerCode ==
    \A c \in Codes :
       /\ hemkop_details[c].asked <= 1
       /\ hemkop_details[c].asked = 1 <=> c \in seen_product_codes
       /\ hemkop_details[c].failed => hemkop_items[c] = 0

\* a listing page named a code whose detail request had failed: no second
\* request was yielded for it
C35_Witness ==
    \E c \in Codes :
       /\ hemkop_details[c].failed
       /\ hemkop_last.cb = "parse_product_listing"
       /\ c \in hemkop_last.relisted
       /\ \A r \in BagToSet(hemkop_pending) : r.code # c

\* C29: parse_product_listing on a payload without products leaves every
\* slug that its subCategories name queued with page 0 requested once, yields
\* the request of the next page when currentPage + 1 < numberOfPages (a
\* missing currentPage counting as 0, a missing numberOfPages as 1), yields no
\* detail request and no item, and gets past the decoding without an error
C29_EmptyPageNoError ==
    [][(/\ hemkop_pending' # hemkop_pending
        /\ hemkop_last'.cb = "parse_product_listing"
        /\ hemkop_last'.watched.seen
        /\ hemkop_last'.watched.results = <<>>) =>
          LET w   == hemkop_last'.watched
              cur == IF w.pagination.currentPage = Missing THEN 0
                     ELSE w.pagination.currentPage
              num == IF w.pagination.numberOfPages = Missing THEN 1
                     ELSE w.pagination.numberOfPages
          IN  /\ \A url \in Range(w.subCategories) \ {Missing} :
                    /\ url \in queued_slugs'
                    /\ hemkop_fetched'[url][0] = 1
              /\ cur + 1 < num =>
                    /\ hemkop_last'.next = <<ListingRequest(hemkop_last'.full_slug, cur + 1)>>
                    /\ ListingRequest(hemkop_last'.full_slug, cur + 1)
                           \in BagToSet(hemkop_pending')
              /\ hemkop_last'.decoded
              /\ hemkop_items' = hemkop_items
              /\ seen_product_codes' = seen_product_codes
              /\ \A r \in BagToSet(hemkop_pending') :
                    r.kind = "detail" =>
                        CopiesIn(r, hemkop_pending') = CopiesIn(r, hemkop_pending)
      ]_vars

\* a page without products named a subcategory that was not queued, and the
\* next page of the category was requested
C29_Witness ==
    /\ hemkop_last.cb = "parse_product_listing"
    /\ hemkop_last.watched.seen
    /\ hemkop_last.watched.results = <<>>
    /\ \E url \in Range(hemkop_last.watched.subCategories) \ {Missing} :
          url \notin hemkop_last.rediscovered
    /\ hemkop_last.next # <<>>

(***************************************************************************)
(* Claims about the Mathem spider.                                         *)
(***************************************************************************)
SubcategoryInFlight(k) ==
    \E r \in BagToSet(mathem_pending) : r.kind = "category" /\ QueueKey(r) = k

\* the nextCursor of the page entries that have hasMore and a nextCursor
WantedCursors(pages) ==
    LET wanted == SelectSeq(pages, LAMBDA e : e.hasMore /\ e.nextCursor # None)
    IN  [i \in 1..Len(wanted) |-> wanted[i].nextCursor]

\* C8: the follow-up requests that a callback yields for a payload with pages
\* are the cursor requests of the page entries that have both hasMore and a
\* non-empty nextCursor, one each; a source of N pages that was answered page by
\* page is requested once per page and no further, so a source with hasMore =
\* false on its 3rd page is fetched 3 times.
C8_CursorPagination ==
    /\ mathem_last.pages # <<>> => mathem_last.followups = WantedCursors(mathem_last.pages)
    /\ \A k \in QueueKeys : mathem_clean[k] =>
          /\ \A c \in 0..MaxCursor :
                /\ mathem_fetched[k][c] <= 1
                /\ c >= mathem_server[k[2]] => mathem_fetched[k][c] = 0
          /\ (mathem_fetched[k][0] = 1 /\ ~SubcategoryInFlight(k)) =>
                \A c \in 0..(mathem_server[k[2]] - 1) : mathem_fetched[k][c] = 1

\* a source of three pages was answered page by page and its third page, with
\* hasMore = false, has been handled
C8_Witness ==
    \E k \in QueueKeys :
        /\ mathem_clean[k]
        /\ mathem_server[k[2]] = 3
        /\ ~SubcategoryInFlight(k)
        /\ mathem_last.key = k
        /\ Len(mathem_last.pages) = 1
        /\ ~mathem_last.pages[1].hasMore
        /\ mathem_fetched[k] = [c \in 0..MaxCursor |-> IF c < 3 THEN 1 ELSE 0]

\* C11: in the crawl of the scenario (seeds 1 and 2; listing 1 inlines the
\* products 1 and 2 and has the child 3; listing 3 inlines product 3, which
\* listing 2 references for a batch) no product is yielded twice, and when no
\* request is left exactly three distinct products have been yielded
C11_ScenarioEmitsThree ==
    /\ \A pid \in Prods : items[pid] <= 1
    /\ (started /\ pending = EmptyBag) =>
          Cardinality({pid \in Prods : items[pid] = 1}) = 3

\* the run has ended, and its last callback was the batch answer, whose
\* product 3 listing 3 had yielded before
C11_Witness ==
    /\ started
    /\ pending = EmptyBag
    /\ last.cb = "parse_product_batch"
    /\ last.status = 200
    /\ 3 \in last.suppressed
    /\ Cardinality({pid \in Prods : items[pid] = 1}) = 3

\* the requests that the callback of this step built
BuiltInStep == BagCardinality(pending') - BagCardinality(pending) + 1

\* this step is parse_category on a body that parsed, and it built a request
ListingBuiltRequests ==
    /\ now' = now
    /\ last'.cb = "parse_category"
    /\ last'.status \in {200, 403}
    /\ BuiltInStep >= 1

\* C12: when parse_category builds its requests, the solver is called if and
\* only if the spider holds no WAF token or the token was obtained more than
\* WAF_TOKEN_TTL seconds ago; if it is not called, the session fields stay as
\* they are; it is called at most once per request built
C12_RefreshIffAbsentOrExpired ==
    [][ListingBuiltRequests =>
          /\ last'.refreshes <= BuiltInStep
          /\ IF waf_token = None \/ now - token_obtained_at > WAF_TOKEN_TTL
             THEN last'.refreshes >= 1
             ELSE /\ last'.refreshes = 0
                  /\ UNCHANGED <<waf_token, csrf_token, session_cookies,
                                 token_obtained_at>>]_vars

\* parse_category built a batch request exactly WAF_TOKEN_TTL seconds after the
\* token was obtained and did not call the solver
C12_Witness ==
    /\ last.cb = "parse_category"
    /\ last.status = 200
    /\ last.chunks # <<>>
    /\ last.refreshes = 0
    /\ waf_token # None
    /\ now - token_obtained_at = WAF_TOKEN_TTL

\* the engine sends req in this step
SentInStep(req) ==
    /\ last'.cb = "download"
    /\ ~req.sent
    /\ CopiesIn(req, pending') < CopiesIn(req, pending)

\* C13: a request that the engine sends carries no WAF token that was
\* obtained more than WAF_TOKEN_TTL seconds before the sending
C13_TokenFreshWhenSent ==
    [][\A req \in BagToSet(pending) :
          (SentInStep(req) /\ req.waf # None) => now - req.waf_at <= WAF_TOKEN_TTL]_vars

\* C14: at most one worker thread runs the solver, and while a refresh is in
\* progress (from pool.submit until the four fields are stored or the call
\* has ended in an error, the worker ended) no callback builds a request or
\* takes an answer
C14_SingleRefreshInFlight ==
    [][/\ solver'.worker <= 1
       /\ pending' # pending => ~InProgress]_vars

\* the call has timed out after 60 s and waits for its worker, with requests
\* in flight whose answers the engine cannot deliver
C14_Witness ==
    /\ solver.pc = "exit"
    /\ solver.worker = 1
    /\ solver.calls >= 2
    /\ pending # EmptyBag

\* C15: when a call of _refresh_session has failed (playwright missing, an
\* exception, the 60 s timeout, or a triple without a WAF token) its caller is
\* handed an error outcome, that is something other than the None that a call
\* that succeeded hands it
C15_FailureSurfaced ==
    (solver.pc = "idle" /\ solver.calls >= 1 /\ solver.failed) => solver.ret # "None"

\* C16: a batch whose every answer is a 403 is requested at most 1 +
\* MAX_WAF_RETRIES times: no request is issued for it after its 4th 403
C16_BatchDeniedRetryBounded ==
    \A r \in BagToSet(pending) :
        (r.kind = "batch" /\ r.soft = 0) => r.denied <= MAX_WAF_RETRIES

\* C17: a 403 to a category request with fewer than MAX_WAF_RETRIES retries
\* runs the refresh, yields no item and yields the request for the same
\* category with the retry count raised by one
C17_CategoryDeniedRetried ==
    [][(/\ IsCallback'
        /\ last'.cb = "parse_category"
        /\ last'.status = 403
        /\ last'.retries < MAX_WAF_RETRIES) =>
          /\ last'.refreshes >= 1
          /\ items' = items
          /\ \E r \in BagToSet(pending') :
               /\ r.kind = "category"
               /\ r.waf_retries = last'.retries + 1]_vars

\* the callback of this step answered r with a 202 (a batch: or with a 403)
\* after r had reached the retry bound: a category request with
\* MAX_WAF_RETRIES retries, a batch that had been answered by that status
\* MAX_WAF_RETRIES times before
AnsweredAtBound(r) ==
    /\ IsCallback'
    /\ CopiesIn(r, pending') < CopiesIn(r, pending)
    /\ \/ /\ r.kind = "category"
          /\ last'.cb = "parse_category"
          /\ last'.status = 202
          /\ r.waf_retries >= MAX_WAF_RETRIES
       \/ /\ r.kind = "batch"
          /\ last'.cb = "parse_product_batch"
          /\ \/ last'.status = 202 /\ r.soft >= MAX_WAF_RETRIES
             \/ last'.status = 403 /\ r.denied >= MAX_WAF_RETRIES

\* C18: the callback that answers a request at its retry bound drops it: it
\* yields no item and no request, leaves the visited set and the emitted set
\* as they are, and takes nothing but that request out of the pending ones
C18_DropIsolated ==
    [][\A r \in BagToSet(pending) :
          AnsweredAtBound(r) =>
            /\ items' = items
            /\ visited_categories' = visited_categories
            /\ emitted_product_ids' = emitted_product_ids
            /\ pending' = pending (-) SetToBag({r})]_vars

\* C19: a callback that cannot decode the body of its response (an ICA
\* listing, an ICA batch, a Hemkop listing) yields no item and no request,
\* does not call the solver, leaves the session, the visited and emitted sets
\* and the queued and seen sets as they are, and takes nothing but the
\* answered request out of the pending ones
C19_UndecodableSkipped ==
    [][/\ (pending' # pending /\ ~last'.decoded) =>
            /\ items' = items
            /\ first_requests' = first_requests
            /\ last'.refreshes = 0
            /\ UNCHANGED <<visited_categories, emitted_product_ids, waf_token,
                           csrf_token, session_cookies, token_obtained_at>>
            /\ \E r \in BagToSet(pending) : pending' = pending (-) SetToBag({r})
       /\ (/\ hemkop_pending' # hemkop_pending
           /\ hemkop_last'.cb = "parse_product_listing"
           /\ ~hemkop_last'.decoded) =>
            /\ hemkop_items' = hemkop_items
            /\ hemkop_fetched' = hemkop_fetched
            /\ UNCHANGED <<queued_slugs, seen_product_codes>>
            /\ \E r \in BagToSet(hemkop_pending) :
                 hemkop_pending' = hemkop_pending (-) SetToBag({r})]_vars

\* an ICA batch and a Hemkop listing were answered by a body that is not
\* JSON, and both crawls have requests left to answer
C19_Witness ==
    /\ last.cb = "parse_product_batch"
    /\ ~last.decoded
    /\ pending # EmptyBag
    /\ hemkop_last.cb = "parse_product_listing"
    /\ ~hemkop_last.decoded
    /\ hemkop_pending # EmptyBag

\* C20: after parse_category on a listing that parsed, every product id that
\* its productGroups reference and that is neither inlined nor emitted is in
\* the product_ids of a batch request the callback yielded, whatever the
\* session holds
C20_ReferencedIdsBatched ==
    (last.cb = "parse_category" /\ last.decoded) =>
        \A pid \in Range(last.referenced) :
            \E k \in DOMAIN last.chunks : pid \in Range(last.chunks[k])

\* C21: after parse_category on a listing that parsed, no product id that the
\* payload has among its entities is in the product_ids of a batch request the
\* callback yielded
C21_InlinedNeverBatched ==
    (last.cb = "parse_category" /\ last.decoded) =>
        \A pid \in last.inlined :
            \A k \in DOMAIN last.chunks : pid \notin Range(last.chunks[k])

\* the category requests that the step answers: a copy leaves pending
Answered(r) == r.kind = "category" /\ CopiesIn(r, pending') < CopiesIn(r, pending)

\* C31: category requests are answered in the order of their depth: when a
\* category request is answered, no first request for a category nearer to the
\* seeds (one with a shorter category_chain) is waiting
C31_BreadthFirst ==
    [][\A r \in BagToSet(pending) :
         Answered(r) =>
            \A q \in BagToSet(pending) :
               (q.kind = "category" /\ q.waf_retries = 0) =>
                   Len(q.category_chain) >= Len(r.category_chain)]_vars

\* the session fields that _refresh_session stores
SessionFields == <<waf_token, csrf_token, session_cookies, token_obtained_at>>

\* C32: a call of _refresh_session whose solver run raises or times out, or
\* that finds no playwright, returns None to its caller without raising and
\* leaves the WAF token, the CSRF token, the session cookies and the
\* obtained-at time as they were: the fields stay as they are while the call
\* has no solver result, a result is stored only when _run returned one in
\* time, and the obtained-at time changes only in the assignment that follows
\* the three others
C32_FailedRefreshChangesNothing ==
    [][/\ solver.pc \in {"idle", "result", "exit"} => UNCHANGED SessionFields
       /\ (solver.pc # "store_waf" /\ solver'.pc = "store_waf") =>
             (solver.pc = "result" /\ solver'.outcome \notin {"error", "none"})
       /\ token_obtained_at' # token_obtained_at => solver.pc = "store_at"
       /\ solver'.pc = "idle" => solver'.ret = "None"]_vars

\* a call ended in the error branch at a later time than the one at which the
\* WAF token that the spider holds was obtained
C32_Witness ==
    /\ solver.pc = "idle"
    /\ solver.failed
    /\ waf_token # None
    /\ now > token_obtained_at

\* the category requests that the step yields: pending gains a copy
Yielded(q) == q.kind = "category" /\ CopiesIn(q, pending') > CopiesIn(q, pending)

\* C33: every category request that a step yields has a category_chain that
\* is not empty and ends in its category_id; a request of start_requests has
\* the chain of the seed alone, a request for a discovered subcategory has the
\* chain of the request whose response named it with the subcategory appended,
\* and a retry after a 202 has the category_id and the chain of the request it
\* retries and one retry more
C33_TaskContext ==
    [][\A q \in BagToSet(pending') :
         Yielded(q) =>
            /\ q.category_chain # <<>>
            /\ q.category_chain[Len(q.category_chain)] = q.category_id
            /\ ~started => q.category_chain = <<q.category_id>>
            /\ (started /\ q.waf_retries = 0) =>
                  \E r \in BagToSet(pending) :
                     /\ Answered(r)
                     /\ q.category_chain = Append(r.category_chain, q.category_id)
            /\ q.waf_retries > 0 =>
                  \E r \in BagToSet(pending) :
                     /\ Answered(r)
                     /\ q.category_id = r.category_id
                     /\ q.category_chain = r.category_chain
                     /\ q.waf_retries = r.waf_retries + 1]_vars

\* the request for a discovered subcategory got a 202 and its retry is waiting
C33_Witness ==
    \E q \in BagToSet(pending) :
       /\ q.kind = "category"
       /\ q.waf_retries > 0
       /\ Len(q.category_chain) >= 2

\* C24: no subcategory URI is queued, and so requested, under two keys of
\* _queued_subcategories
C24_UriEnqueuedOnce ==
    \A k1, k2 \in queued_subcategories : k1[2] = k2[2] => k1 = k2

(***************************************************************************)
(* Claims about every spider.                                              *)
(***************************************************************************)
\* C26: no step of a run removes a key from the visited-category set or the
\* emitted-product set of the ICA spider, from the queued-slug set or the
\* seen-code set of the Hemkop spider, or from the queued-subcategory set of
\* the Mathem spider
C26_SeenSetsGrow ==
    [][/\ visited_categories \subseteq visited_categories'
       /\ emitted_product_ids \subseteq emitted_product_ids'
       /\ queued_slugs \subseteq queued_slugs'
       /\ seen_product_codes \subseteq seen_product_codes'
       /\ queued_subcategories \subseteq queued_subcategories']_vars

\* the detail request of a product code failed and the code is still seen
C26_Witness ==
    /\ hemkop_last.cb = "_handle_detail_error"
    /\ seen_product_codes # {}

(***************************************************************************)
(* Claims about the Coop spider.                                           *)
(***************************************************************************)
\* C25: no product id is yielded as an item more than once in a run, in
\* however many categories or pages the server lists it
C25_CoopEmittedOnce == \A p \in CoopProducts : coop_items[p] <= 1

\* no listing request for the category is waiting
CoopDone(c) == \A r \in BagToSet(coop_pending) : r.category_id # c

\* the skips of the listing requests yielded for the category
CoopAsked(c) == {s \in CoopSkips : coop_fetched[c][s] > 0}

\* C34: every listing request has a skip that is a multiple of 48 and the page
\* skip / 48; for a category whose responses so far all reported one count,
\* each skip was requested at most once, every requested skip is 0 or below
\* the count, and once no request for the category is waiting the number of
\* requests is the count divided by 48 and rounded up, or 1 for the count 0
C34_SkipTakePagination ==
    /\ \A r \in BagToSet(coop_pending) :
          /\ r.skip % page_size = 0
          /\ r.page = r.skip \div page_size
    /\ \A c \in CoopCategories :
          LET h == coop_reported[c]
          IN  (h.answered /\ h.steady) =>
                 /\ \A s \in CoopSkips : coop_fetched[c][s] <= 1
                 /\ \A s \in CoopAsked(c) : s = 0 \/ s < h.count
                 /\ CoopDone(c) =>
                       Cardinality(CoopAsked(c)) =
                           IF h.count = 0 THEN 1
                           ELSE (h.count + page_size - 1) \div page_size

\* the responses of a category reported a count of one more than a page, and
\* its second page was requested and answered
C34_Witness ==
    \E c \in CoopCategories :
       /\ coop_reported[c].answered
       /\ coop_reported[c].steady
       /\ coop_reported[c].count = page_size + 1
       /\ CoopDone(c)
       /\ coop_fetched[c][page_size] = 1

(***************************************************************************)
(* Claims about the startup of a run.                                      *)
(***************************************************************************)
\* no source of the subscription key yields one
NoSubscriptionKey ==
    /\ ~coop_config.arg
    /\ ~coop_config.settings
    /\ ~coop_config.environ
    /\ ~coop_config.page

BadStartup ==
    \/ ~coop_config.mapping
    \/ NoSubscriptionKey
    \/ store_name_setting = "None"
    \/ store_name_setting \notin DOMAIN STORE_IDS

\* C22: when the category mapping file is missing, no subscription key can be
\* resolved, or STORE_NAME is missing or unknown, the run never starts: no
\* listing request is issued and no item is yielded to the pipeline
C22_ConfigErrorsFatal ==
    BadStartup =>
        /\ coop_phase # "started"
        /\ coop_pending = EmptyBag
        /\ \A c \in CoopCategories : \A k \in CoopSkips : coop_fetched[c][k] = 0
        /\ \A p \in CoopProducts : coop_items[p] = 0
        /\ pipe_count = 0

\* the mapping file and STORE_NAME are fine, the pipeline is open, and
\* start_requests ended in the ValueError of _fetch_subscription_key
C22_Witness ==
    /\ NoSubscriptionKey
    /\ pipeline_phase = "open"
    /\ coop_phase = "failed"
    /\ coop_error = "ValueError"

(***************************************************************************)
(* Claims about the persistence pipeline.                                  *)
(***************************************************************************)
\* the site product ids of the items that process_item upserted
Upserted == {e[2][1] : e \in {r \in db_returned : r[1] = "process_item"}}

\* C27: after a run in which no statement failed, any two upserted items with
\* different site product ids have two different rows of store_products, each
\* with the url of its item
C27_DistinctIdsDistinctRows ==
    (pipeline_phase = "closed" /\ db_env.faults = MaxDbFaults) =>
        \A i1, i2 \in Upserted :
            i1 # i2 =>
                \E r1, r2 \in committed.store_products :
                    /\ r1.product_id # r2.product_id
                    /\ r1.url = i1
                    /\ r2.url = i2

\* C28: the calls of get_or_create_category and of get_or_create_product that
\* returned for one key returned one id, the statements sent for one key
\* inserted at most one row, and a call whose key was cached sent no statement
C28_IdempotentGetOrCreate ==
    /\ \A e1, e2 \in db_returned :
          (e1[1] = e2[1] /\ e1[2] = e2[2]) => e1[3] = e2[3]
    /\ \A k \in BagToSet(db_created) : CopiesIn(k, db_created) <= 1
    /\ db_last.hit => db_last.statements = 0

\* get_or_create_product was called again for a key with a NULL category id,
\* whose row a unique constraint with distinct NULLs does not protect, after a
\* failed statement rolled the transaction back
C28_Witness ==
    /\ db_last.op = "get_or_create_product"
    /\ db_last.hit
    /\ db_last.key[2] = None
    /\ db_env.nulls_distinct
    /\ db_env.faults < MaxDbFaults
    /\ <<"products", db_last.key>> \in BagToSet(db_created)

\* C36: every id that the category cache or the product cache of DBOps holds
\* is the id of a row that the transaction of the connection sees
C36_CachesCoherent ==
    /\ \A key \in DOMAIN category_cache :
          \E r \in tables.categories : r.id = category_cache[key]
    /\ \A key \in DOMAIN product_cache :
          \E r \in tables.products : r.id = product_cache[key]

\* C37: after close_spider, every item that process_item upserted without an
\* exception has its row of store_products in the committed database,
\* whichever other items failed
C37_FailureIsolated ==
    pipeline_phase = "closed" =>
        \A e \in db_returned :
            e[1] = "process_item" =>
                \E r \in committed.store_products :
                    r.store_id = store_id /\ r.product_id = e[3]

\* C38: a call of process_item adds one to the item counter when it upserted
\* its item and leaves the counter alone when the item has no name or a
\* statement failed; it commits when, and only when, the counter has reached
\* a multiple of 100 in this call, and then the transaction holds nothing
\* that is not committed; after every call fewer than 100 items were upserted
\* since the last commit; close_spider commits what is left
C38_CommitCadence ==
    [][/\ (db_last'.op = "process_item" /\ db_env'.calls < db_env.calls) =>
             LET upserted == ~db_last'.raised /\ db_last'.statements > 0
             IN  /\ pipe_count' = pipe_count + (IF upserted THEN 1 ELSE 0)
                 /\ db_last'.commit <=> (upserted /\ pipe_count' % COMMIT_EVERY = 0)
                 /\ db_last'.commit => committed' = tables'
                 /\ db_uncommitted' < COMMIT_EVERY
       /\ (pipeline_phase = "open" /\ pipeline_phase' = "closed") =>
             /\ db_last'.commit
             /\ committed' = tables'
             /\ db_uncommitted' = 0
             /\ pipe_count' = pipe_count]_vars

\* process_item committed at the count of 100 in a run in which an item
\* failed before and was not counted
C38_Witness ==
    /\ db_last.op = "process_item"
    /\ db_last.commit
    /\ pipe_count = COMMIT_EVERY
    /\ db_env.faults < MaxDbFaults
    /\ db_uncommitted = 0

\* C39: a row of store_products of a Hemkop product that the site reported
\* out of stock has the availability status unavailable, and one of a product
\* that the site reported in stock has the status available
C39_OutOfStockUnavailable ==
    \A r \in tables.store_products :
       /\ r.reported = "True" => r.availability = "unavailable"
       /\ r.reported = "False" => r.availability = "available"

====
